---- MODULE Spec2Model ----
(***************************************************************************)
(* Workday resolver of the holiday-query server:                           *)
(*   workday.py            token acquisition, remote holiday fetch,        *)
(*                         get_work_day / is_workday                       *)
(*   holiday_query_mcp.py  HolidayData.is_holiday / get_holidays           *)
(* Python values are records tagged by k, so that None, strings, numbers,  *)
(* lists and dicts can be told apart the way the interpreter does.         *)
(***************************************************************************)
EXTENDS Integers, Sequences, FiniteSets, TLC

VARIABLES
  HAS_API,       \* holiday_query_mcp.py: the workday module was imported
  tokenCache,    \* lru_cache of get_access_token, least recently used first
  holidayCache,  \* lru_cache of get_holiday_data, least recently used first
  tokenReply,    \* what the authority endpoint answers to a POST right now
  holidayReply,  \* what the holiday endpoint answers to a GET right now
  last,          \* observation of the most recent finished call
  tick,          \* flips at every call (tells a call from an endpoint change)
  tokenSeen,     \* per triple, the last token a get_access_token call returned
  quota,         \* what is left of a bounded scenario of get_holiday_data calls
  threads,       \* per thread, the position inside a concurrent cached call
  shell,         \* cli_mcp.py: the run_command invocation and its child process
  book           \* excel_mcp_server.py: the file on disk and the last tool call

vars == <<HAS_API, tokenCache, holidayCache, tokenReply, holidayReply,
          last, tick, tokenSeen, quota, threads, shell, book>>

----------------------------------------------------------------------------
(* Bounds of the model *)

\* number of distinct token strings the authority may hand out
NumTokens == 2
\* number of distinct non-empty application ids callers may pass
NumApps == 2
\* distinct keys a scenario of get_holiday_data calls asks for
MaxKeys == 12
\* repeated requests and source changes in such a scenario
MaxSpare == 2
\* records in one call of validate_date_status
MaxRecords == 3
\* threads that are inside a cached call at the same time
NumThreads == 2
\* largest timeout, in seconds, run_command is called with
MaxTimeout == 2
\* longest time, in seconds, a command runs when nothing stops it
MaxDuration == 3
\* rows of the worksheet, the header included
MaxRows == 3

----------------------------------------------------------------------------
(* Python values *)

PyNone == [k |-> "null"]
PyStr(s) == [k |-> "str", s |-> s]
PyNum(n) == [k |-> "num", n |-> n]
PyBool(b) == [k |-> "bool", b |-> b]
PyList(xs) == [k |-> "list", xs |-> xs]
Absent == [k |-> "absent"]

\* the dict keys the code ever looks up
DictKeys ==
  {"data", "access_token", "business_holiday", "date", "is_work_day", "status"}

EmptyDict == [k |-> "dict", f |-> [key \in DictKeys |-> Absent]]
PyDict(r) ==
  [k |-> "dict",
   f |-> [key \in DictKeys |-> IF key \in DOMAIN r THEN r[key] ELSE Absent]]

\* an opaque non-empty string with an identity (token, application id)
PyName(s, i) == [k |-> "str", s |-> s, id |-> i]

\* truth value of `not v`
Falsy(v) ==
  CASE v.k = "null" -> TRUE
    [] v.k = "str"  -> v.s = ""
    [] v.k = "num"  -> v.n = 0
    [] v.k = "bool" -> ~v.b
    [] v.k = "list" -> v.xs = <<>>
    [] v.k = "dict" -> \A key \in DictKeys : v.f[key] = Absent
    [] OTHER -> FALSE

Truthy(v) == ~Falsy(v)

\* `key in v` for a string key: "yes", "no" or the exception raised.
\* On a str operand Python tests for a substring; no string of the model
\* properly contains a key, so the test is equality.
Contains(key, v) ==
  CASE v.k = "dict" -> IF v.f[key] # Absent THEN "yes" ELSE "no"
    [] v.k = "list" -> IF \E i \in 1..Len(v.xs) : v.xs[i] = PyStr(key)
                       THEN "yes" ELSE "no"
    [] v.k = "str"  -> IF v.s = key THEN "yes" ELSE "no"
    [] OTHER -> "TypeError"

\* `v[key]` for a string key
GetItem(v, key) ==
  CASE v.k = "dict" -> IF v.f[key] # Absent
                       THEN [ex |-> "none", val |-> v.f[key]]
                       ELSE [ex |-> "KeyError", val |-> PyNone]
    [] OTHER -> [ex |-> "TypeError", val |-> PyNone]

----------------------------------------------------------------------------
(* HTTP replies and JSON bodies *)

NetErr == [st |-> "neterr"]           \* connection error or timeout
HttpStatus == [st |-> "status"]       \* a 4xx/5xx status line
EmptyText == [k |-> "empty"]          \* the text ""
Garbage == [k |-> "garbage"]          \* a text that is not JSON
Body(t) == [st |-> "body", text |-> t]

\* requests.post(...); raise_for_status(); response.text -- or None
http_post_json(reply) ==
  IF reply.st = "body" THEN reply.text ELSE PyNone

\* json.loads(text)
json_loads(text) ==
  IF text.k \in {"empty", "garbage"}
  THEN [ex |-> "JSONDecodeError", val |-> PyNone]
  ELSE [ex |-> "none", val |-> text]

Tokens == {PyName("tok", i) : i \in 1..NumTokens}

TokenReplies ==
  {NetErr, HttpStatus, Body(EmptyText), Body(Garbage),
   Body(EmptyDict),
   Body(PyDict([data |-> EmptyDict])),
   Body(PyDict([data |-> PyNone])),
   Body(PyDict([data |-> PyStr("access_token")])),
   Body(PyNum(5)),
   Body(PyDict([data |-> PyDict([access_token |-> PyStr("")])]))}
  \cup {Body(PyDict([data |-> PyDict([access_token |-> t])])) : t \in Tokens}

----------------------------------------------------------------------------
(* functools.lru_cache: a sequence of entries, least recently used first *)

\* a cache that never finds its entry
CacheHit_never(c, key) == FALSE

CacheHit(c, key) == \E i \in 1..Len(c) : c[i].key = key

CacheIndex(c, key) == CHOOSE i \in 1..Len(c) : c[i].key = key

CacheGet(c, key) == c[CacheIndex(c, key)].val

\* a hit that leaves the order of the entries alone (first in, first out)
CacheTouch_fifo(c, key) == c

\* a hit moves the entry to the most recently used end
CacheTouch(c, key) ==
  LET i == CacheIndex(c, key)
  IN  SubSeq(c, 1, i - 1) \o SubSeq(c, i + 1, Len(c)) \o <<c[i]>>

\* a miss stores the result, evicting the least recently used entry when full
CachePut(c, key, val, maxsize) ==
  LET e == [key |-> key, val |-> val]
  IN  IF Len(c) >= maxsize THEN Tail(c) \o <<e>> ELSE Append(c, e)

\* the wrapper's store after the call: a key another thread added while the
\* function ran is left as it is
CacheStore(c, key, val, maxsize) ==
  IF CacheHit(c, key) THEN c ELSE CachePut(c, key, val, maxsize)

TokenCacheSize == 1
HolidayCacheSize == 10

----------------------------------------------------------------------------
(* workday.py: WorkDayConfig and the triples callers pass *)

AppIds == {PyName("app", i) : i \in 1..NumApps} \cup {PyStr(""), PyNone}

Triple(app) == [center_url |-> "auth-center", app_id |-> app, app_secret |-> "secret"]

Triples == {Triple(a) : a \in AppIds}

\* the process configuration (env = 1)
config == [open_plat |-> "open-plat", center_url |-> "auth-center",
           app_id |-> PyName("app", 1), app_secret |-> "secret"]

ConfigTriple == [center_url |-> config.center_url, app_id |-> config.app_id,
                 app_secret |-> config.app_secret]

----------------------------------------------------------------------------
(* workday.py: get_access_token *)

Returned(v, posts) == [ret |-> v, raised |-> "none", posts |-> posts]
Raised(e, posts) == [ret |-> PyNone, raised |-> e, posts |-> posts]

\* lines 96-104: the parsing of the response text
token_parse(response) ==
  LET p == json_loads(response) IN
  IF p.ex # "none" THEN Returned(PyNone, 1)
  ELSE
    LET token_data == p.val
        c1 == Contains("data", token_data)
    IN
    IF c1 = "TypeError" THEN Raised("TypeError", 1)
    ELSE IF c1 = "no" THEN Returned(PyNone, 1)
    ELSE
      LET g1 == GetItem(token_data, "data") IN
      IF g1.ex = "KeyError" THEN Returned(PyNone, 1)
      ELSE IF g1.ex # "none" THEN Raised(g1.ex, 1)
      ELSE
        LET c2 == Contains("access_token", g1.val) IN
        IF c2 = "TypeError" THEN Raised("TypeError", 1)
        ELSE IF c2 = "no" THEN Returned(PyNone, 1)
        ELSE
          LET g2 == GetItem(g1.val, "access_token") IN
          IF g2.ex = "KeyError" THEN Returned(PyNone, 1)
          ELSE IF g2.ex # "none" THEN Raised(g2.ex, 1)
          ELSE Returned(g2.val, 1)

\* the guard of lines 79-81 left out
token_body_noguard(triple, reply) ==
  LET response == http_post_json(reply) IN
  IF response = PyNone \/ response.k = "empty" THEN Returned(PyNone, 1)
  ELSE token_parse(response)

\* the undecorated function body, lines 79-104
token_body(triple, reply) ==
  IF Falsy(triple.app_id) THEN Returned(PyNone, 0)
  ELSE
    LET response == http_post_json(reply) IN
    IF response = PyNone \/ response.k = "empty" THEN Returned(PyNone, 1)
    ELSE token_parse(response)

\* a cache miss: the outcome b of the body is stored unless it is an exception
\* the wrapper storing results only, a None is asked for again
token_miss_results_only(cache, triple, b) ==
  [ret |-> b.ret, raised |-> b.raised, posts |-> b.posts, hit |-> FALSE,
   cache |-> IF b.raised = "none" /\ b.ret # PyNone
             THEN CachePut(cache, triple, b.ret, TokenCacheSize)
             ELSE cache]

token_miss(cache, triple, b) ==
  [ret |-> b.ret, raised |-> b.raised, posts |-> b.posts, hit |-> FALSE,
   cache |-> IF b.raised = "none"
             THEN CachePut(cache, triple, b.ret, TokenCacheSize)
             ELSE cache]

\* the decorated function: [ret, raised, posts, hit, cache]
get_access_token(cache, triple, reply) ==
  IF CacheHit(cache, triple)
  THEN [ret |-> CacheGet(cache, triple), raised |-> "none", posts |-> 0,
        hit |-> TRUE, cache |-> CacheTouch(cache, triple)]
  ELSE token_miss(cache, triple, token_body(triple, reply))

----------------------------------------------------------------------------
(* workday.py: get_holiday_data *)

\* the caches and the requests issued so far by the running call
\* log lists the requests in the order they were sent
World(tc, hc) == [tc |-> tc, hc |-> hc, posts |-> 0, gets |-> 0, log |-> <<>>]

\* requests.post of line 59 (when the token call sent it) and requests.get of
\* line 131 with its Authorization header
PostEvent == [req |-> "POST"]
GetEvent(access_token) == [req |-> "GET", auth |-> access_token]

\* what the two endpoints answer while the call runs
Env(tr, hr) == [token |-> tr, holiday |-> hr]

\* lines 130-142: the GET and the parsing of its response
holiday_fetch(reply) ==
  IF reply.st # "body" THEN [ret |-> PyNone, raised |-> "none"]
  ELSE
    LET p == json_loads(reply.text) IN
    IF p.ex # "none" THEN [ret |-> PyNone, raised |-> "none"]
    ELSE
      LET data == p.val
          c1 == Contains("data", data)
      IN
      IF c1 = "TypeError" THEN [ret |-> PyNone, raised |-> "TypeError"]
      ELSE IF c1 = "no" THEN [ret |-> PyNone, raised |-> "none"]
      ELSE
        LET g1 == GetItem(data, "data") IN
        IF g1.ex = "KeyError" THEN [ret |-> PyNone, raised |-> "none"]
        ELSE IF g1.ex # "none" THEN [ret |-> PyNone, raised |-> g1.ex]
        ELSE
          LET c2 == Contains("business_holiday", g1.val) IN
          IF c2 = "TypeError" THEN [ret |-> PyNone, raised |-> "TypeError"]
          ELSE IF c2 = "no" THEN [ret |-> PyNone, raised |-> "none"]
          ELSE
            LET g2 == GetItem(g1.val, "business_holiday") IN
            IF g2.ex = "KeyError" THEN [ret |-> PyNone, raised |-> "none"]
            ELSE IF g2.ex # "none" THEN [ret |-> PyNone, raised |-> g2.ex]
            ELSE [ret |-> g2.val, raised |-> "none"]

\* the world after the token call t
token_called(w, t) ==
  [w EXCEPT !.tc = t.cache, !.posts = @ + t.posts,
            !.log = IF t.posts = 1 THEN Append(@, PostEvent) ELSE @]

\* the world after the GET of line 131
get_sent(w, access_token) ==
  [w EXCEPT !.gets = @ + 1, !.log = Append(@, GetEvent(access_token))]

\* the GET sent whatever the token call returned
holiday_with_token_unchecked(w, e, t) ==
  LET w1 == token_called(w, t) IN
  IF t.raised # "none" THEN [ret |-> PyNone, raised |-> t.raised, w |-> w1]
  ELSE
    LET f == holiday_fetch(e.holiday) IN
    [ret |-> f.ret, raised |-> f.raised, w |-> get_sent(w1, t.ret)]

\* lines 127-142, with t the outcome of get_access_token at line 125
holiday_with_token(w, e, t) ==
  LET w1 == token_called(w, t) IN
  IF t.raised # "none" THEN [ret |-> PyNone, raised |-> t.raised, w |-> w1]
  ELSE IF Falsy(t.ret) THEN [ret |-> PyNone, raised |-> "none", w |-> w1]
  ELSE
    LET f == holiday_fetch(e.holiday) IN
    [ret |-> f.ret, raised |-> f.raised, w |-> get_sent(w1, t.ret)]

\* the undecorated function body, lines 122-142
holiday_body(w, key, e) ==
  holiday_with_token(w, e,
    get_access_token(w.tc,
      [center_url |-> key.center_url, app_id |-> key.app_id,
       app_secret |-> key.app_secret], e.token))

\* a cache miss: the outcome b of the body is stored unless it is an exception
holiday_miss(key, b) ==
  [ret |-> b.ret, raised |-> b.raised, hit |-> FALSE,
   w |-> IF b.raised = "none"
         THEN [b.w EXCEPT !.hc = CachePut(b.w.hc, key, b.ret, HolidayCacheSize)]
         ELSE b.w]

\* the decorator without its lookup: every call runs the body and stores
get_holiday_data_refetching(w, key, e) ==
  holiday_miss(key, holiday_body(w, key, e))

\* the decorated function: [ret, raised, hit, w]
get_holiday_data(w, key, e) ==
  IF CacheHit(w.hc, key)
  THEN [ret |-> CacheGet(w.hc, key), raised |-> "none", hit |-> TRUE,
        w |-> [w EXCEPT !.hc = CacheTouch(w.hc, key)]]
  ELSE holiday_miss(key, holiday_body(w, key, e))

HolidayKey(year, base_url, t) ==
  [year |-> year, base_url |-> base_url, center_url |-> t.center_url,
   app_id |-> t.app_id, app_secret |-> t.app_secret]

ConfigKey(year) == HolidayKey(year, config.open_plat, ConfigTriple)

----------------------------------------------------------------------------
(* datetime.date: a date object is a record [year, month, day] *)

Date(y, m, d) == [year |-> y, month |-> m, day |-> d]

IsLeap(y) == y % 4 = 0 /\ (y % 100 # 0 \/ y % 400 = 0)

DaysInMonth(y, m) ==
  IF m = 2 THEN (IF IsLeap(y) THEN 29 ELSE 28)
  ELSE IF m \in {4, 6, 9, 11} THEN 30 ELSE 31

DaysBeforeMonth(y, m) ==
  <<0, 31, 59, 90, 120, 151, 181, 212, 243, 273, 304, 334>>[m]
    + (IF m > 2 /\ IsLeap(y) THEN 1 ELSE 0)

DaysBeforeYear(y) ==
  (y - 1) * 365 + ((y - 1) \div 4) - ((y - 1) \div 100) + ((y - 1) \div 400)

\* date.toordinal(): 1 for 0001-01-01
toordinal(d) == DaysBeforeYear(d.year) + DaysBeforeMonth(d.year, d.month) + d.day

\* date.weekday(): 0 = Monday ... 6 = Sunday
weekday(d) == (toordinal(d) + 6) % 7

\* current_date + timedelta(days=1)
NextDay(d) ==
  IF d.day < DaysInMonth(d.year, d.month) THEN Date(d.year, d.month, d.day + 1)
  ELSE IF d.month < 12 THEN Date(d.year, d.month + 1, 1)
  ELSE Date(d.year + 1, 1, 1)

\* current_date <= end_date
DateLeq(a, b) == toordinal(a) <= toordinal(b)

Digit == <<"0", "1", "2", "3", "4", "5", "6", "7", "8", "9">>
Pad2(n) == Digit[((n \div 10) % 10) + 1] \o Digit[(n % 10) + 1]
Pad4(n) == Pad2(n \div 100) \o Pad2(n % 100)

\* date_obj.strftime("%Y-%m-%d")
strftime(d) == Pad4(d.year) \o "-" \o Pad2(d.month) \o "-" \o Pad2(d.day)

\* int(datetime.combine(date, min.time()).timestamp()), process time zone UTC
timestamp(d) == (toordinal(d) - toordinal(Date(1970, 1, 1))) * 86400

\* datetime.fromtimestamp(ts).weekday(); 1970-01-01 was a Thursday
weekday_of_timestamp(ts) == ((ts \div 86400) + 3) % 7

----------------------------------------------------------------------------
(* holiday_query_mcp.py: HolidayData.holidays, the built-in table *)

TableYear == 2026

holidays ==
  [y \in {TableYear} |->
    ( "2026-01-01" :> TRUE
   @@ "2026-02-02" :> TRUE @@ "2026-02-03" :> TRUE @@ "2026-02-04" :> TRUE
   @@ "2026-02-05" :> TRUE @@ "2026-02-06" :> TRUE @@ "2026-02-07" :> TRUE
   @@ "2026-02-08" :> TRUE
   @@ "2026-02-28" :> FALSE
   @@ "2026-04-04" :> TRUE @@ "2026-04-05" :> TRUE @@ "2026-04-06" :> TRUE
   @@ "2026-05-01" :> TRUE @@ "2026-05-02" :> TRUE @@ "2026-05-03" :> TRUE
   @@ "2026-05-04" :> TRUE @@ "2026-05-05" :> TRUE
   @@ "2026-06-20" :> TRUE @@ "2026-06-21" :> TRUE @@ "2026-06-22" :> TRUE
   @@ "2026-09-26" :> TRUE @@ "2026-09-27" :> TRUE @@ "2026-09-28" :> TRUE
   @@ "2026-10-01" :> TRUE @@ "2026-10-02" :> TRUE @@ "2026-10-03" :> TRUE
   @@ "2026-10-04" :> TRUE @@ "2026-10-05" :> TRUE @@ "2026-10-06" :> TRUE
   @@ "2026-10-07" :> TRUE )]

\* the labels returned as holiday type
WorkingDay == "WorkingDay"              \* "工作日"
AdjustedWorkday == "AdjustedWorkday"    \* "调休（需上班）"
Weekend == "Weekend"                    \* "周末"
SpecialRestDay == "SpecialRestDay"      \* "休息日"
StatutoryHoliday == "StatutoryHoliday"  \* "法定节假日"

----------------------------------------------------------------------------
(* workday.py: get_work_day and is_workday *)

\* item["date"], item["is_work_day"] and the hashing of the key, for one item
\* of the comprehension at line 177: the exception it raises, or "none"
item_error(item) ==
  LET gd == GetItem(item, "date") IN
  IF gd.ex # "none" THEN gd.ex
  ELSE
    LET gw == GetItem(item, "is_work_day") IN
    IF gw.ex # "none" THEN gw.ex
    ELSE IF gd.val.k \in {"list", "dict"} THEN "TypeError"
    ELSE "none"

\* line 177: {item["date"]: item["is_work_day"] for item in holiday_data},
\* as [ex, items]; a later item replaces an earlier one with an equal key
holiday_dict(holiday_data) ==
  CASE holiday_data.k = "list" ->
         LET xs == holiday_data.xs
             bad == {i \in 1..Len(xs) : item_error(xs[i]) # "none"}
         IN  IF bad # {}
             THEN [ex |-> item_error(xs[CHOOSE i \in bad : \A j \in bad : i <= j]),
                   items |-> <<>>]
             ELSE [ex |-> "none", items |-> xs]
    [] holiday_data.k \in {"dict", "str"} ->
         IF Falsy(holiday_data) THEN [ex |-> "none", items |-> <<>>]
         ELSE [ex |-> "TypeError", items |-> <<>>]
    [] OTHER -> [ex |-> "TypeError", items |-> <<>>]

\* lines 169-186 with tag = None, h the outcome of get_holiday_data
\* the lookup with the first record of a date winning
work_day_lookup_first(ts, h) ==
  IF h.raised # "none" THEN [ret |-> PyNone, raised |-> h.raised, w |-> h.w]
  ELSE IF h.ret = PyNone THEN [ret |-> PyNone, raised |-> "none", w |-> h.w]
  ELSE
    LET hd == holiday_dict(h.ret) IN
    IF hd.ex # "none" THEN [ret |-> PyNone, raised |-> hd.ex, w |-> h.w]
    ELSE
      LET listed == {i \in 1..Len(hd.items) : hd.items[i].f["date"] = PyNum(ts)} IN
      IF listed # {}
      THEN [ret |-> hd.items[CHOOSE i \in listed : \A j \in listed : i <= j].f["is_work_day"],
            raised |-> "none", w |-> h.w]
      ELSE [ret |-> PyBool(weekday_of_timestamp(ts) < 5), raised |-> "none", w |-> h.w]

\* lines 164-186 with tag = None: [ret, raised, w]; ret is a Python value
work_day_lookup(ts, h) ==
  IF h.raised # "none" THEN [ret |-> PyNone, raised |-> h.raised, w |-> h.w]
  ELSE IF h.ret = PyNone THEN [ret |-> PyNone, raised |-> "none", w |-> h.w]
  ELSE
    LET hd == holiday_dict(h.ret) IN
    IF hd.ex # "none" THEN [ret |-> PyNone, raised |-> hd.ex, w |-> h.w]
    ELSE
      LET listed == {i \in 1..Len(hd.items) : hd.items[i].f["date"] = PyNum(ts)} IN
      IF listed # {}
      THEN [ret |-> hd.items[CHOOSE i \in listed : \A j \in listed : j <= i].f["is_work_day"],
            raised |-> "none", w |-> h.w]
      ELSE [ret |-> PyBool(weekday_of_timestamp(ts) < 5), raised |-> "none", w |-> h.w]

\* lines 164-186 with tag = None: [ret, raised, w]; ret is a Python value
get_work_day(w, year, ts, e) ==
  work_day_lookup(ts, get_holiday_data(w, ConfigKey(year), e))

\* lines 220-226, with r the outcome of get_work_day at line 218
workday_answer(d, r) ==
  IF r.raised # "none"
  THEN [ret |-> FALSE, raised |-> r.raised, answered |-> FALSE, w |-> r.w]
  ELSE IF r.ret = PyNone
  THEN [ret |-> weekday(d) < 5, raised |-> "none", answered |-> FALSE, w |-> r.w]
  ELSE [ret |-> Truthy(r.ret), raised |-> "none", answered |-> TRUE, w |-> r.w]

\* the try block of is_workday, lines 204-226, for a datetime.date argument:
\* [ret, raised, answered, w]; answered says get_work_day produced the value
is_workday_try(w, d, e) ==
  workday_answer(d, get_work_day(w, d.year, timestamp(d), e))

\* lines 228-231: `except Exception` turns every exception into False
workday_except(r) ==
  IF r.raised # "none"
  THEN [ret |-> FALSE, raised |-> "none", answered |-> FALSE, swallowed |-> r.raised, w |-> r.w]
  ELSE [ret |-> r.ret, raised |-> "none", answered |-> r.answered, swallowed |-> "none", w |-> r.w]

\* is_workday
is_workday(w, d, e) == workday_except(is_workday_try(w, d, e))

----------------------------------------------------------------------------
(* holiday_query_mcp.py: HolidayData.is_holiday and get_holidays *)

\* the weekend taken as days 6 and 7 (ISO numbering)
IsWeekend_iso(wd) == wd \in {6, 7}

\* weekday in [5, 6]
IsWeekend(wd) == wd \in {5, 6}

\* the remote path without the adjusted-workday branch
\* the remote mapping reporting a working weekend as a holiday
remote_result_adjust_flagged(is_work_day, wd) ==
  IF is_work_day
  THEN (IF IsWeekend(wd) THEN [flag |-> TRUE, kind |-> AdjustedWorkday]
                         ELSE [flag |-> FALSE, kind |-> WorkingDay])
  ELSE (IF IsWeekend(wd) THEN [flag |-> TRUE, kind |-> Weekend]
                         ELSE [flag |-> TRUE, kind |-> SpecialRestDay])

remote_result_no_adjust(is_work_day, wd) ==
  IF is_work_day THEN [flag |-> FALSE, kind |-> WorkingDay]
  ELSE (IF IsWeekend(wd) THEN [flag |-> TRUE, kind |-> Weekend]
                         ELSE [flag |-> TRUE, kind |-> SpecialRestDay])

\* lines 125-135: the answer of the remote path
remote_result(is_work_day, wd) ==
  IF is_work_day
  THEN (IF IsWeekend(wd) THEN [flag |-> FALSE, kind |-> AdjustedWorkday]
                         ELSE [flag |-> FALSE, kind |-> WorkingDay])
  ELSE (IF IsWeekend(wd) THEN [flag |-> TRUE, kind |-> Weekend]
                         ELSE [flag |-> TRUE, kind |-> SpecialRestDay])

InTable(d) ==
  d.year \in DOMAIN holidays /\ strftime(d) \in DOMAIN holidays[d.year]

\* the local path taking every key of the table for a holiday
local_result_any_key(d) ==
  IF InTable(d)
  THEN [flag |-> TRUE, kind |-> StatutoryHoliday, path |-> "table"]
  ELSE IF IsWeekend(weekday(d))
  THEN [flag |-> TRUE, kind |-> Weekend, path |-> "default"]
  ELSE [flag |-> FALSE, kind |-> WorkingDay, path |-> "default"]

\* lines 139-154: the local table, then the weekday rule
local_result(d) ==
  IF InTable(d)
  THEN (IF holidays[d.year][strftime(d)]
        THEN [flag |-> TRUE, kind |-> StatutoryHoliday, path |-> "table"]
        ELSE [flag |-> FALSE, kind |-> AdjustedWorkday, path |-> "table"])
  ELSE IF IsWeekend(weekday(d))
  THEN [flag |-> TRUE, kind |-> Weekend, path |-> "default"]
  ELSE [flag |-> FALSE, kind |-> WorkingDay, path |-> "default"]

Result(flag, kind, path, raised, r) ==
  [flag |-> flag, kind |-> kind, path |-> path, raised |-> raised,
   work |-> r.ret, answered |-> r.answered, swallowed |-> r.swallowed, w |-> r.w]

Local(d, w) ==
  LET l == local_result(d) IN
  [flag |-> l.flag, kind |-> l.kind, path |-> l.path, raised |-> "none",
   work |-> FALSE, answered |-> FALSE, swallowed |-> "none", w |-> w]

\* lines 121-137, with r the outcome of api_is_workday at line 121
remote_branch(d, r) ==
  IF r.raised # "none"
  THEN Local(d, r.w)
  ELSE
    LET m == remote_result(r.ret, weekday(d)) IN
    Result(m.flag, m.kind, "remote", "none", r)

\* the outcome of the try block of is_workday with no handler around it
workday_noexcept(r) ==
  [ret |-> r.ret, raised |-> r.raised, answered |-> r.answered,
   swallowed |-> "none", w |-> r.w]

\* the remote branch letting an exception of the working-day query through
remote_branch_raising(d, r) ==
  IF r.raised # "none"
  THEN Result(FALSE, "", "none", r.raised, r)
  ELSE
    LET m == remote_result(r.ret, weekday(d)) IN
    Result(m.flag, m.kind, "remote", "none", r)

\* is_holiday with no exception handler between the caller and get_work_day
is_holiday_unguarded(w, d, e, has_api) ==
  IF ~has_api THEN Local(d, w)
  ELSE remote_branch_raising(d, workday_noexcept(is_workday_try(w, d, e)))

\* HolidayData.is_holiday, lines 115-154:
\* [flag, kind, path, raised, work, answered, swallowed, w]
is_holiday(w, d, e, has_api) ==
  IF ~has_api THEN Local(d, w)
  ELSE remote_branch(d, is_workday(w, d, e))

RECURSIVE loop_steps(_, _, _, _, _, _, _)

\* lines 180-183 and 195-198: one day classified as r, then the rest
loop_step(r, cur, end_date, acc, e, has_api, n) ==
  IF r.raised # "none"
  THEN [holidays |-> acc, raised |-> r.raised, cur |-> cur, w |-> r.w]
  ELSE loop_steps(r.w, NextDay(cur), end_date,
                  IF r.flag THEN Append(acc, strftime(cur)) ELSE acc,
                  e, has_api, n - 1)

\* at most n iterations of the loops of lines 179-183 and 194-198, from cur
\* up to end_date, appending to acc: [holidays, raised, cur, w]; an exception
\* leaves the loop at once
loop_steps(w, cur, end_date, acc, e, has_api, n) ==
  IF n = 0 \/ ~DateLeq(cur, end_date)
  THEN [holidays |-> acc, raised |-> "none", cur |-> cur, w |-> w]
  ELSE loop_step(is_holiday(w, cur, e, has_api), cur, end_date, acc, e, has_api, n)

RECURSIVE year_loop(_, _, _, _, _, _)

\* the loop resumed after the iterations c
year_loop_resume(c, end_date, e, has_api) ==
  IF c.raised # "none" THEN [holidays |-> c.holidays, raised |-> c.raised, w |-> c.w]
  ELSE year_loop(c.w, c.cur, end_date, c.holidays, e, has_api)

\* the whole loop, evaluated a month's worth of iterations at a time:
\* [holidays, raised, w]
year_loop(w, cur, end_date, acc, e, has_api) ==
  IF ~DateLeq(cur, end_date) THEN [holidays |-> acc, raised |-> "none", w |-> w]
  ELSE year_loop_resume(loop_steps(w, cur, end_date, acc, e, has_api, 31),
                        end_date, e, has_api)

\* the outcome of the fetch of line 171, as get_holidays sees it
fetch_outcome(h) ==
  IF h.raised # "none" THEN "raised"
  ELSE IF h.ret = PyNone THEN "failed"
  ELSE IF Falsy(h.ret) THEN "empty"
  ELSE "data"

\* what get_holidays returns after its last loop l
loop_result(fetched, l) ==
  [ret |-> l.holidays, raised |-> l.raised, fetched |-> fetched, w |-> l.w]

\* lines 190-200: the loop over the year on the fallback path, entered with
\* the list as the try block left it
fallback_loop(w, year, end_date, acc, e, has_api, fetched) ==
  loop_result(fetched,
              year_loop(w, Date(year, 1, 1), end_date, acc, e, has_api))

\* line 184, or the handler of line 185 when the loop l1 of the try block raised
first_loop_done(l1, year, end_date, e, has_api) ==
  IF l1.raised = "none"
  THEN loop_result("data", l1)
  ELSE fallback_loop(l1.w, year, end_date, l1.holidays, e, has_api, "data")

\* lines 173-200, with h the outcome of api_get_holiday_data at line 171
after_fetch(h, year, end_date, e, has_api) ==
  IF fetch_outcome(h) = "data"
  THEN first_loop_done(
         year_loop(h.w, Date(year, 1, 1), end_date, <<>>, e, has_api),
         year, end_date, e, has_api)
  ELSE fallback_loop(h.w, year, end_date, <<>>, e, has_api, fetch_outcome(h))

\* lines 165-200 with the loops running up to end_date
get_holidays_until(w, year, end_date, e, has_api) ==
  IF has_api
  THEN after_fetch(get_holiday_data(w, ConfigKey(year), e),
                   year, end_date, e, has_api)
  ELSE fallback_loop(w, year, end_date, <<>>, e, has_api, "disabled")

\* get_holidays whose loops leave out Dec 31 (current_date < end_date)
get_holidays_short(w, year, e, has_api) ==
  get_holidays_until(w, year, Date(year, 12, 30), e, has_api)

\* HolidayData.get_holidays, lines 165-200: [ret, raised, fetched, w]
get_holidays(w, year, e, has_api) ==
  get_holidays_until(w, year, Date(year, 12, 31), e, has_api)

----------------------------------------------------------------------------
(* holiday_query_mcp.py: validate_date_status *)

\* record.get(key): the value, None for an absent key, AttributeError when
\* record is no dict
dict_get(record, key) ==
  IF record.k # "dict" THEN [ex |-> "AttributeError", val |-> PyNone]
  ELSE IF record.f[key] = Absent THEN [ex |-> "none", val |-> PyNone]
  ELSE [ex |-> "none", val |-> record.f[key]]

\* date strings written without zero padding, which strptime accepts
Unpadded == ("2026-2-2" :> Date(2026, 2, 2))

\* the calendar dates whose "%Y-%m-%d" text strptime is given
ParseDates ==
  {Date(2026, 2, 2), Date(2026, 2, 28), Date(2026, 3, 3), Date(2026, 3, 7)}

\* datetime.strptime(date_str, "%Y-%m-%d").date(): the date, ValueError for
\* a text that is no date in that format, TypeError for a non-string
strptime(date_str) ==
  IF date_str.k # "str" THEN [ex |-> "TypeError", val |-> PyNone]
  ELSE IF date_str.s \in DOMAIN Unpadded
  THEN [ex |-> "none", val |-> Unpadded[date_str.s]]
  ELSE IF \E d \in ParseDates : strftime(d) = date_str.s
  THEN [ex |-> "none", val |-> CHOOSE d \in ParseDates : strftime(d) = date_str.s]
  ELSE [ex |-> "ValueError", val |-> PyNone]

\* status == expected_status, for a bool expected_status (True == 1, False == 0)
PyEqBool(v, b) ==
  CASE v.k = "bool" -> v.b = b
    [] v.k = "num"  -> v.n = (IF b THEN 1 ELSE 0)
    [] OTHER -> FALSE

\* an entry of valid_records_detail or invalid_records_detail; reason stands
\* for "valid": True or for the kind of text under "error"
Entry(date_str, status, expected, actual, kind, reason) ==
  [date |-> date_str, status |-> status, expected_status |-> expected,
   actual_status |-> actual, holiday_type |-> kind, reason |-> reason]

ShortEntry(date_str, status, reason) ==
  Entry(date_str, status, Absent, Absent, Absent, reason)

\* what one iteration of the loop does: the list appended to, the entry,
\* the date classified if any, the exception leaving the loop body if any
Step(list, entry, classified, raised, w) ==
  [list |-> list, entry |-> entry, classified |-> classified,
   raised |-> raised, w |-> w]

\* expected_status computed as is_holiday_flag itself
compare_status_plain(date_str, status, r) ==
  IF r.raised # "none"
  THEN Step("invalid", ShortEntry(date_str, status, "other"), TRUE, "none", r.w)
  ELSE IF PyEqBool(status, r.flag)
  THEN Step("valid", Entry(date_str, status, PyBool(r.flag), PyBool(r.flag),
                           PyStr(r.kind), "valid"), TRUE, "none", r.w)
  ELSE Step("invalid", Entry(date_str, status, PyBool(r.flag), PyBool(r.flag),
                             PyStr(r.kind), "mismatch"), TRUE, "none", r.w)

\* lines 341-366 and 375-381, with r the outcome of is_holiday at line 341
compare_status(date_str, status, r) ==
  IF r.raised # "none"
  THEN Step("invalid", ShortEntry(date_str, status, "other"), TRUE, "none", r.w)
  ELSE IF PyEqBool(status, ~r.flag)
  THEN Step("valid", Entry(date_str, status, PyBool(~r.flag), PyBool(r.flag),
                           PyStr(r.kind), "valid"), TRUE, "none", r.w)
  ELSE Step("invalid", Entry(date_str, status, PyBool(~r.flag), PyBool(r.flag),
                             PyStr(r.kind), "mismatch"), TRUE, "none", r.w)

\* the handler of line 368 missing: a ValueError leaves the loop
parsed_record_uncaught(w, date_str, status, p, e, has_api) ==
  IF p.ex # "none"
  THEN Step("none", ShortEntry(date_str, status, "other"), FALSE, p.ex, w)
  ELSE compare_status(date_str, status, is_holiday(w, p.val, e, has_api))

\* lines 336-381, with p the outcome of strptime at line 338
parsed_record(w, date_str, status, p, e, has_api) ==
  IF p.ex = "ValueError"
  THEN Step("invalid", ShortEntry(date_str, status, "format"), FALSE, "none", w)
  ELSE IF p.ex # "none"
  THEN Step("invalid", ShortEntry(date_str, status, "other"), FALSE, "none", w)
  ELSE compare_status(date_str, status, is_holiday(w, p.val, e, has_api))

\* the test of line 327 with `not status` in place of `status is None`
present_record_truthy(w, date_str, status, e, has_api) ==
  IF Falsy(date_str) \/ Falsy(status)
  THEN Step("invalid", ShortEntry(date_str, status, "missing"), FALSE, "none", w)
  ELSE parsed_record(w, date_str, status, strptime(date_str), e, has_api)

\* lines 327-381, with the two values record.get returned
present_record(w, date_str, status, e, has_api) ==
  IF Falsy(date_str) \/ status = PyNone
  THEN Step("invalid", ShortEntry(date_str, status, "missing"), FALSE, "none", w)
  ELSE parsed_record(w, date_str, status, strptime(date_str), e, has_api)

\* the loop body, lines 324-381
validate_record(w, record, e, has_api) ==
  IF dict_get(record, "date").ex # "none"
  THEN Step("none", ShortEntry(PyNone, PyNone, "other"), FALSE,
            dict_get(record, "date").ex, w)
  ELSE present_record(w, dict_get(record, "date").val,
                      dict_get(record, "status").val, e, has_api)

\* what the loop has collected: the two lists and, per record in input
\* order, the date it was classified for or Absent
Collected(valid, invalid, calls) ==
  [valid |-> valid, invalid |-> invalid, calls |-> calls]

\* a record whose processing ended in the handler of line 375 left out
Collect_skipping(acc, st) ==
  IF st.entry.reason = "other"
  THEN Collected(acc.valid, acc.invalid, Append(acc.calls, st.classified))
  ELSE Collected(IF st.list = "valid" THEN Append(acc.valid, st.entry) ELSE acc.valid,
                 IF st.list = "invalid" THEN Append(acc.invalid, st.entry) ELSE acc.invalid,
                 Append(acc.calls, st.classified))

Collect(acc, st) ==
  Collected(IF st.list = "valid" THEN Append(acc.valid, st.entry) ELSE acc.valid,
            IF st.list = "invalid" THEN Append(acc.invalid, st.entry) ELSE acc.invalid,
            Append(acc.calls, st.classified))

\* the dict returned at lines 384-393, or the one of lines 396-398 when an
\* exception left the loop
Validated(acc, total, raised, w) ==
  [failed |-> raised # "none", raised |-> "none", error |-> raised,
   total_records |-> IF raised = "none" THEN total ELSE 0,
   valid_records |-> IF raised = "none" THEN Len(acc.valid) ELSE 0,
   invalid_records |-> IF raised = "none" THEN Len(acc.invalid) ELSE 0,
   valid_records_detail |-> IF raised = "none" THEN acc.valid ELSE <<>>,
   invalid_records_detail |-> IF raised = "none" THEN acc.invalid ELSE <<>>,
   calls |-> acc.calls, w |-> w]

RECURSIVE validate_loop(_, _, _, _, _, _)

\* the rest of the loop after the iteration st for record i
validate_next(st, date_records, i, acc, e, has_api) ==
  IF st.raised # "none"
  THEN Validated(acc, Len(date_records), st.raised, st.w)
  ELSE validate_loop(st.w, date_records, i + 1, Collect(acc, st), e, has_api)

\* for record in date_records, from record i on
validate_loop(w, date_records, i, acc, e, has_api) ==
  IF i > Len(date_records)
  THEN Validated(acc, Len(date_records), "none", w)
  ELSE validate_next(validate_record(w, date_records[i], e, has_api),
                     date_records, i, acc, e, has_api)

\* validate_date_status, lines 320-398, for a list date_records
validate_date_status(w, date_records, e, has_api) ==
  validate_loop(w, date_records, 1, Collected(<<>>, <<>>, <<>>), e, has_api)

----------------------------------------------------------------------------
(* The remote holiday source *)

Rec(d, flag) == PyDict([date |-> PyNum(timestamp(d)), is_work_day |-> flag])

\* exception records keyed by timestamp: a rest weekday, a working Saturday,
\* and two dates of the built-in table
ListedDays ==
  PyList(<<Rec(Date(2026, 3, 2), PyBool(FALSE)),
           Rec(Date(2026, 3, 7), PyBool(TRUE)),
           Rec(Date(2026, 1, 1), PyBool(FALSE)),
           Rec(Date(2026, 2, 28), PyBool(TRUE))>>)

\* a date listed twice, and a record whose flag is null
ListedTwice ==
  PyList(<<Rec(Date(2026, 3, 7), PyBool(FALSE)),
           Rec(Date(2026, 3, 7), PyBool(TRUE)),
           Rec(Date(2026, 3, 2), PyNone)>>)

\* records whose date is the string form
StringDays ==
  PyList(<<PyDict([date |-> PyStr("2026-03-02"), is_work_day |-> PyBool(FALSE)])>>)

\* a record without its is_work_day key
BrokenRecord ==
  PyList(<<Rec(Date(2026, 3, 7), PyBool(TRUE)),
           PyDict([date |-> PyNum(timestamp(Date(2026, 3, 2)))])>>)

HolidayBody(v) == Body(PyDict([data |-> PyDict([business_holiday |-> v])]))

HolidayReplies ==
  {NetErr, HttpStatus, Body(Garbage),
   Body(EmptyDict),
   Body(PyDict([data |-> EmptyDict])),
   Body(PyDict([data |-> PyNone])),
   HolidayBody(PyNone),
   HolidayBody(PyList(<<>>)),
   HolidayBody(ListedDays),
   HolidayBody(ListedTwice),
   HolidayBody(StringDays),
   HolidayBody(BrokenRecord)}

----------------------------------------------------------------------------
(* Inputs *)

\* the years get_holidays is asked for: the table's year and a leap year
\* that ends on a Sunday
Years == {TableYear, TableYear + 2}

DaysOfYear(y) ==
  {dd \in {Date(y, m, d) : m \in 1..12, d \in 1..31} :
     dd.day <= DaysInMonth(y, dd.month)}

\* records handed to validate_date_status: well-formed ones for dates of the
\* table and outside it, and records with a field missing, empty, null,
\* unparseable or of another type; the last one is no dict at all
DateRecord(date_str, status) == PyDict([date |-> date_str, status |-> status])

RecordList ==
  <<DateRecord(PyStr("2026-02-02"), PyBool(FALSE)),
    DateRecord(PyStr("2026-13-40"), PyBool(TRUE)),
    DateRecord(PyStr("2026-02-28"), PyBool(FALSE)),
    PyDict([status |-> PyBool(TRUE)]),
    DateRecord(PyStr("2026-02-02"), PyBool(TRUE)),
    PyDict([date |-> PyStr("2026-03-07")]),
    DateRecord(PyStr("2026-02-28"), PyBool(TRUE)),
    DateRecord(PyStr(""), PyBool(FALSE)),
    DateRecord(PyStr("2026-03-07"), PyBool(FALSE)),
    DateRecord(PyNum(20260202), PyBool(TRUE)),
    DateRecord(PyStr("2026-03-03"), PyStr("yes")),
    DateRecord(PyStr("2026-2-2"), PyBool(FALSE)),
    DateRecord(PyStr("2026-03-03"), PyNone),
    PyStr("2026-02-02")>>

\* n records of RecordList from the i-th on, going round
Window(i, n) ==
  [j \in 1..n |-> RecordList[((i + j - 2) % Len(RecordList)) + 1]]

Reversed(xs) == [j \in 1..Len(xs) |-> xs[Len(xs) + 1 - j]]

\* the lists validate_date_status is called with
Batches ==
  {Window(i, n) : i \in 1..Len(RecordList), n \in 0..MaxRecords}
    \cup {Reversed(Window(i, n)) : i \in 1..Len(RecordList), n \in 0..MaxRecords}

\* the dates is_holiday is asked about while the remote source is in use
SampleDates ==
  {Date(2026, 1, 1), Date(2026, 2, 2), Date(2026, 2, 7), Date(2026, 2, 28),
   Date(2026, 3, 2), Date(2026, 3, 3), Date(2026, 3, 7), Date(2026, 3, 8)}

----------------------------------------------------------------------------
(* State machine *)

NoCall == [op |-> "none"]

\* no bounded scenario and no concurrent call under way; recent lists the
\* keys asked for in the scenario, the least recently asked first
NoQuota == [fresh |-> 0, spare |-> 0, recent |-> <<>>]
NoThreads == <<>>

\* the command bridge and the spreadsheet server are not running
NoShell == [pc |-> "off"]
NoBook == [disk |-> "off"]

Start ==
  /\ HAS_API \in BOOLEAN
  /\ tokenCache = <<>>
  /\ holidayCache = <<>>
  /\ tokenReply \in TokenReplies
  /\ holidayReply \in HolidayReplies
  /\ last = NoCall
  /\ tick = FALSE
  /\ tokenSeen = [t \in Triples |-> Absent]
  /\ threads = NoThreads
  /\ shell = NoShell
  /\ book = NoBook

Init == Start /\ quota = NoQuota

\* the authority endpoint changes its behaviour
AuthorityChange ==
  /\ tokenReply' \in TokenReplies \ {tokenReply}
  /\ UNCHANGED <<shell, book, quota, threads, HAS_API, tokenCache, holidayCache, holidayReply, last, tick,
                 tokenSeen>>

\* the holiday endpoint changes its behaviour
HolidayChange ==
  /\ holidayReply' \in HolidayReplies \ {holidayReply}
  /\ UNCHANGED <<shell, book, quota, threads, HAS_API, tokenCache, holidayCache, tokenReply, last, tick,
                 tokenSeen>>

\* a direct call get_access_token(center_url, app_id, app_secret)
GetAccessTokenCall(t) ==
  \E r \in {get_access_token(tokenCache, t, tokenReply)} :
  /\ tokenCache' = r.cache
  /\ last' = [op |-> "get_access_token", key |-> t, ret |-> r.ret,
              raised |-> r.raised, posts |-> r.posts, hit |-> r.hit]
  /\ tick' = ~tick
  /\ tokenSeen' = IF r.raised = "none" /\ r.ret \in Tokens
                  THEN [tokenSeen EXCEPT ![t] = r.ret]
                  ELSE tokenSeen
  /\ UNCHANGED <<shell, book, quota, threads, HAS_API, holidayCache, tokenReply, holidayReply>>

CallGetAccessToken == \E t \in Triples : GetAccessTokenCall(t)

\* a direct call get_work_day(year, timestamp) for the midnight of d
CallGetWorkDay ==
  \E d \in SampleDates :
    \E r \in {get_work_day(World(tokenCache, holidayCache), d.year,
                           timestamp(d), Env(tokenReply, holidayReply))} :
    /\ tokenCache' = r.w.tc
    /\ holidayCache' = r.w.hc
    /\ last' = [op |-> "get_work_day", date |-> d, ret |-> r.ret,
                raised |-> r.raised, posts |-> r.w.posts, gets |-> r.w.gets]
    /\ tick' = ~tick
    /\ UNCHANGED <<shell, book, quota, threads, HAS_API, tokenReply, holidayReply, tokenSeen>>

\* holiday_data.is_holiday(d)
IsHolidayCall(d) ==
  \E r \in {is_holiday(World(tokenCache, holidayCache), d,
                        Env(tokenReply, holidayReply), HAS_API)} :
  /\ tokenCache' = r.w.tc
  /\ holidayCache' = r.w.hc
  /\ last' = [op |-> "is_holiday", date |-> d, flag |-> r.flag, kind |-> r.kind,
              path |-> r.path, raised |-> r.raised, work |-> r.work,
              answered |-> r.answered, swallowed |-> r.swallowed, posts |-> r.w.posts, gets |-> r.w.gets]
  /\ tick' = ~tick
  /\ UNCHANGED <<shell, book, quota, threads, HAS_API, tokenReply, holidayReply, tokenSeen>>

CallIsHoliday == \E d \in SampleDates : IsHolidayCall(d)

\* is_holiday on any day of the table's year, and on the sample dates
CallIsHolidayAnyDay ==
  \E d \in DaysOfYear(TableYear) \cup SampleDates : IsHolidayCall(d)

\* holiday_data.get_holidays(year)
GetHolidaysCall(y) ==
  \E r \in {get_holidays(World(tokenCache, holidayCache), y,
                          Env(tokenReply, holidayReply), HAS_API)} :
  /\ tokenCache' = r.w.tc
  /\ holidayCache' = r.w.hc
  /\ last' = [op |-> "get_holidays", year |-> y, ret |-> r.ret,
              raised |-> r.raised, fetched |-> r.fetched,
              posts |-> r.w.posts, gets |-> r.w.gets,
              env |-> Env(tokenReply, holidayReply)]
  /\ tick' = ~tick
  /\ UNCHANGED <<shell, book, quota, threads, HAS_API, tokenReply, holidayReply, tokenSeen>>

CallGetHolidays == \E y \in Years : GetHolidaysCall(y)

\* the keys of direct get_holiday_data calls: the configured credentials and
\* an empty app id, for each year
FetchKeys ==
  {HolidayKey(y, config.open_plat, t) :
     y \in Years, t \in {ConfigTriple, Triple(PyStr(""))}}

\* the observation of one get_holiday_data call
FetchSeen(key, r) ==
  [op |-> "get_holiday_data", key |-> key, ret |-> r.ret, raised |-> r.raised,
   hit |-> r.hit, posts |-> r.w.posts, gets |-> r.w.gets, log |-> r.w.log]

\* a direct call get_holiday_data(year, base_url, center_url, app_id, app_secret)
GetHolidayDataCall(key) ==
  \E r \in {get_holiday_data(World(tokenCache, holidayCache), key,
                              Env(tokenReply, holidayReply))} :
  /\ tokenCache' = r.w.tc
  /\ holidayCache' = r.w.hc
  /\ last' = FetchSeen(key, r)
  /\ tick' = ~tick
  /\ UNCHANGED <<shell, book, quota, threads, HAS_API, tokenReply, holidayReply, tokenSeen>>

CallGetHolidayData == \E key \in FetchKeys : GetHolidayDataCall(key)

\* validate_date_status(date_records)
CallValidate ==
  \E date_records \in Batches :
    \E r \in {validate_date_status(World(tokenCache, holidayCache), date_records,
                                    Env(tokenReply, holidayReply), HAS_API)} :
    /\ tokenCache' = r.w.tc
    /\ holidayCache' = r.w.hc
    /\ last' = [op |-> "validate_date_status", date_records |-> date_records,
                failed |-> r.failed, raised |-> r.raised, error |-> r.error,
                total_records |-> r.total_records,
                valid_records |-> r.valid_records,
                invalid_records |-> r.invalid_records,
                valid_records_detail |-> r.valid_records_detail,
                invalid_records_detail |-> r.invalid_records_detail,
                calls |-> r.calls, posts |-> r.w.posts, gets |-> r.w.gets,
                env |-> Env(tokenReply, holidayReply)]
    /\ tick' = ~tick
    /\ UNCHANGED <<shell, book, quota, threads, HAS_API, tokenReply, holidayReply, tokenSeen>>

\* day classification against a remote source that changes over time
Next == AuthorityChange \/ HolidayChange \/ CallIsHoliday

Spec == Init /\ [][Next]_vars

\* token acquisition alone
InitToken == Init /\ HAS_API /\ holidayReply = NetErr

NextToken == AuthorityChange \/ CallGetAccessToken

SpecToken == InitToken /\ [][NextToken]_vars

\* remote access disabled: the workday module could not be imported
InitLocal == Init /\ ~HAS_API /\ tokenReply = NetErr /\ holidayReply = NetErr

NextLocal == CallIsHolidayAnyDay \/ CallGetHolidays

SpecLocal == InitLocal /\ [][NextLocal]_vars

\* year enumeration against each behaviour of the remote source
\* one authority reply for each way get_holiday_data's token call can end:
\* None, a raised TypeError, an empty token, a token
YearTokenReplies ==
  {NetErr,
   Body(PyDict([data |-> PyNone])),
   Body(PyDict([data |-> PyDict([access_token |-> PyStr("")])])),
   Body(PyDict([data |-> PyDict([access_token |-> PyName("tok", 1)])]))}

InitYear == Init /\ HAS_API /\ tokenReply \in YearTokenReplies

NextYear == CallGetHolidays

SpecYear == InitYear /\ [][NextYear]_vars

\* the i-th distinct key of a scenario: one year after the other, and last
\* the first year again at another base_url
CacheKey(i) ==
  IF i < MaxKeys
  THEN HolidayKey(TableYear + i - 1, config.open_plat, ConfigTriple)
  ELSE HolidayKey(TableYear, "other-plat", ConfigTriple)

\* the holiday endpoint in a scenario: two lists, a failure that is stored as
\* None and a body on which line 135 raises
CacheReplies ==
  {HolidayBody(ListedDays), HolidayBody(ListedTwice), NetErr,
   Body(PyDict([data |-> PyNone]))}

\* key moved to the most recently asked end of recent
Asked(recent, key) ==
  SelectSeq(recent, LAMBDA k : k # key) \o <<key>>

\* get_holiday_data(key) as one step of a scenario
ScenarioCall(key, fresh, spare) ==
  \E r \in {get_holiday_data(World(tokenCache, holidayCache), key,
                              Env(tokenReply, holidayReply))} :
    /\ tokenCache' = r.w.tc
    /\ holidayCache' = r.w.hc
    /\ last' = FetchSeen(key, r)
    /\ tick' = ~tick
    /\ quota' = [fresh |-> fresh, spare |-> spare,
                 recent |-> Asked(quota.recent, key)]
    /\ UNCHANGED <<shell, book, threads, HAS_API, tokenReply, holidayReply, tokenSeen>>

\* a key that was not asked for before
FreshFetch ==
  /\ quota.fresh < MaxKeys
  /\ ScenarioCall(CacheKey(quota.fresh + 1), quota.fresh + 1, quota.spare)

\* the first key again, or the key of the least recently used, the next or
\* the most recently used entry of the cache
RepeatFetch ==
  /\ quota.spare > 0
  /\ quota.fresh > 0
  /\ \E key \in {CacheKey(1)}
               \cup {holidayCache[i].key :
                       i \in {1, 2, Len(holidayCache)} \cap DOMAIN holidayCache} :
       ScenarioCall(key, quota.fresh, quota.spare - 1)

\* the holiday endpoint changes its behaviour during a scenario
SourceChange ==
  /\ quota.spare > 0
  /\ holidayReply' \in CacheReplies \ {holidayReply}
  /\ quota' = [quota EXCEPT !.spare = @ - 1]
  /\ UNCHANGED <<shell, book, threads, HAS_API, tokenCache, holidayCache, tokenReply, last,
                 tick, tokenSeen>>

\* a scenario of get_holiday_data calls with more keys than the cache holds
InitCache ==
  /\ Start /\ HAS_API
  /\ tokenReply = Body(PyDict([data |-> PyDict([access_token |-> PyName("tok", 1)])]))
  /\ holidayReply \in CacheReplies
  /\ quota = [fresh |-> 0, spare |-> MaxSpare, recent |-> <<>>]

NextCache == FreshFetch \/ RepeatFetch \/ SourceChange

SpecCache == InitCache /\ [][NextCache]_vars

\* batch validation, with remote access disabled or against a holiday
\* endpoint that fails, lists exception days or sends a broken record
InitValidate ==
  /\ Init
  /\ tokenReply \in YearTokenReplies
  /\ holidayReply \in {NetErr, HolidayBody(ListedDays), HolidayBody(BrokenRecord)}

NextValidate == CallValidate

SpecValidate == InitValidate /\ [][NextValidate]_vars

\* single remote fetches while the authority endpoint changes
InitFetch == Init /\ HAS_API

\* the calls of one process with its fixed configuration, while the
\* authority may recover
RecoveredReply == Body(PyDict([data |-> PyDict([access_token |-> PyName("tok", 1)])]))

AuthorityRecovers ==
  /\ tokenReply # RecoveredReply
  /\ tokenReply' = RecoveredReply
  /\ UNCHANGED <<shell, book, quota, threads, HAS_API, tokenCache, holidayCache, holidayReply,
                 last, tick, tokenSeen>>

InitMemo ==
  /\ Init /\ HAS_API
  /\ tokenReply \in YearTokenReplies
  /\ holidayReply \in {NetErr, HolidayBody(ListedDays)}

NextMemo ==
  \/ AuthorityRecovers
  \/ GetAccessTokenCall(ConfigTriple)
  \/ GetHolidayDataCall(ConfigKey(TableYear))
  \/ CallIsHoliday
  \/ GetHolidaysCall(TableYear)

SpecMemo == InitMemo /\ [][NextMemo]_vars

\* get_work_day called directly while the holiday endpoint changes
InitWorkDay == Init /\ HAS_API /\ tokenReply \in YearTokenReplies

NextWorkDay == HolidayChange \/ CallGetWorkDay

SpecWorkDay == InitWorkDay /\ [][NextWorkDay]_vars

NextFetch == AuthorityChange \/ CallGetHolidayData

SpecFetch == InitFetch /\ [][NextFetch]_vars

\* ---- two threads inside the cached calls ----
\* A cached call is three steps: the wrapper's lookup under its lock, the
\* decorated function with no lock held, the wrapper's store under its lock.

RaceOps == {"get_access_token", "get_holiday_data"}

RaceKey == ConfigKey(TableYear)

Thread(op) ==
  [op |-> op,
   pc |-> IF op = "get_holiday_data" THEN "h_lookup" ELSE "t_lookup",
   tok |-> PyNone, val |-> PyNone, ret |-> PyNone, raised |-> "none",
   posts |-> 0, gets |-> 0]

Finished(th, v) == [th EXCEPT !.pc = "done", !.ret = v]

Failed(th, ex, posts) ==
  [th EXCEPT !.pc = "done", !.raised = ex, !.posts = @ + posts]

\* get_access_token has returned v to thread th: the caller has its result,
\* or get_holiday_data goes on with the token
TokenReturned(th, v) ==
  IF th.op = "get_access_token" THEN Finished(th, v)
  ELSE IF Falsy(v) THEN [th EXCEPT !.pc = "h_store", !.val = PyNone]
  ELSE [th EXCEPT !.pc = "h_get", !.tok = v]

RaceFrame ==
  UNCHANGED <<HAS_API, tokenReply, holidayReply, last, tick, tokenSeen, quota,
              shell, book>>

HolidayLookup(i) ==
  /\ threads[i].pc = "h_lookup"
  /\ IF CacheHit(holidayCache, RaceKey)
     THEN /\ threads' = [threads EXCEPT
                           ![i] = Finished(@, CacheGet(holidayCache, RaceKey))]
          /\ holidayCache' = CacheTouch(holidayCache, RaceKey)
     ELSE /\ threads' = [threads EXCEPT ![i].pc = "t_lookup"]
          /\ holidayCache' = holidayCache
  /\ tokenCache' = tokenCache
  /\ RaceFrame

TokenLookup(i) ==
  /\ threads[i].pc = "t_lookup"
  /\ IF CacheHit(tokenCache, ConfigTriple)
     THEN /\ threads' = [threads EXCEPT
                           ![i] = TokenReturned(@, CacheGet(tokenCache,
                                                            ConfigTriple))]
          /\ tokenCache' = CacheTouch(tokenCache, ConfigTriple)
     ELSE /\ threads' = [threads EXCEPT ![i].pc = "t_fetch"]
          /\ tokenCache' = tokenCache
  /\ holidayCache' = holidayCache
  /\ RaceFrame

TokenFetch(i) ==
  /\ threads[i].pc = "t_fetch"
  /\ \E b \in {token_body(ConfigTriple, tokenReply)} :
       threads' = [threads EXCEPT ![i] =
                     IF b.raised # "none" THEN Failed(@, b.raised, b.posts)
                     ELSE [@ EXCEPT !.pc = "t_store", !.tok = b.ret,
                                    !.posts = @ + b.posts]]
  /\ UNCHANGED <<tokenCache, holidayCache>>
  /\ RaceFrame

TokenStore(i) ==
  /\ threads[i].pc = "t_store"
  /\ tokenCache' = CacheStore(tokenCache, ConfigTriple, threads[i].tok,
                              TokenCacheSize)
  /\ threads' = [threads EXCEPT ![i] = TokenReturned(@, @.tok)]
  /\ holidayCache' = holidayCache
  /\ RaceFrame

HolidayGet(i) ==
  /\ threads[i].pc = "h_get"
  /\ \E f \in {holiday_fetch(holidayReply)} :
       threads' = [threads EXCEPT ![i] =
                     IF f.raised # "none"
                     THEN [Failed(@, f.raised, 0) EXCEPT !.gets = @ + 1]
                     ELSE [@ EXCEPT !.pc = "h_store", !.val = f.ret,
                                    !.gets = @ + 1]]
  /\ UNCHANGED <<tokenCache, holidayCache>>
  /\ RaceFrame

HolidayStore(i) ==
  /\ threads[i].pc = "h_store"
  /\ holidayCache' = CacheStore(holidayCache, RaceKey, threads[i].val,
                                HolidayCacheSize)
  /\ threads' = [threads EXCEPT ![i] = Finished(@, @.val)]
  /\ tokenCache' = tokenCache
  /\ RaceFrame

InitRace ==
  /\ HAS_API = TRUE
  /\ tokenCache = <<>>
  /\ holidayCache = <<>>
  /\ tokenReply \in TokenReplies
  /\ holidayReply \in HolidayReplies
  /\ last = NoCall
  /\ tick = FALSE
  /\ tokenSeen = [t \in Triples |-> Absent]
  /\ quota = NoQuota
  /\ threads \in [1..NumThreads -> {Thread(op) : op \in RaceOps}]
  /\ shell = NoShell
  /\ book = NoBook

NextRace ==
  \E i \in 1..NumThreads :
    \/ HolidayLookup(i)
    \/ TokenLookup(i)
    \/ TokenFetch(i)
    \/ TokenStore(i)
    \/ HolidayGet(i)
    \/ HolidayStore(i)

SpecRace == InitRace /\ [][NextRace]_vars

\* ---- cli_mcp.py: run_command ----
\* One invocation at a time.  The coroutine is suspended at its awaits; the
\* child process runs for duration seconds and the timer of wait_for fires
\* after timeout seconds, the clock counting the seconds since the spawn.

POWERSHELL_7_PATH == "pwsh.exe"
DEFAULT_POWERSHELL_PATH == "powershell.exe"

PowerShell7 == "PowerShell 7"
DefaultPowerShell == "Windows Default PowerShell"
UnknownVersion == "unknown"                 \* "未知"

TimeoutText == "timeout"                    \* "命令执行超时"
SuccessText == "success"                    \* "命令执行成功"
FailureText == "failure"                    \* "命令执行失败"
ErrorText(e) == "error: " \o e              \* "执行命令时发生错误: ..."

ExitCodes == {0, 1, 2}

\* what the child writes to a pipe, and str.strip() of its decoding
Outputs == {"", "out\n"}
strip(text) == IF text = "out\n" THEN "out" ELSE text

Timeouts == 0..MaxTimeout
Durations == 0..MaxDuration

\* the errors create_subprocess_exec can end with
SpawnOutcomes == {"ok", "FileNotFoundError", "PermissionError"}

NoReply == [returncode |-> "none"]

\* lines 63-69
timeout_reply(version) ==
  [stdout |-> "", stderr |-> TimeoutText, returncode |-> -1,
   message |-> TimeoutText, powershell_version |-> version]

\* lines 75-81 with the message that does not look at the exit code
finished_reply_always_ok(stdout, stderr, returncode, version) ==
  [stdout |-> strip(stdout), stderr |-> strip(stderr),
   returncode |-> returncode, message |-> SuccessText,
   powershell_version |-> version]

\* lines 72-81
finished_reply(stdout, stderr, returncode, version) ==
  [stdout |-> strip(stdout), stderr |-> strip(stderr),
   returncode |-> returncode,
   message |-> IF returncode = 0 THEN SuccessText ELSE FailureText,
   powershell_version |-> version]

\* lines 82-90
error_reply(e) ==
  [stdout |-> "", stderr |-> e, returncode |-> -1, message |-> ErrorText(e),
   powershell_version |-> UnknownVersion]

\* lines 35-40
powershell_of(exists7) ==
  IF exists7 THEN [path |-> POWERSHELL_7_PATH, version |-> PowerShell7]
  ELSE [path |-> DEFAULT_POWERSHELL_PATH, version |-> DefaultPowerShell]

ShellIdle == [pc |-> "idle"]

ShellFrame ==
  UNCHANGED <<HAS_API, tokenCache, holidayCache, tokenReply, holidayReply,
              last, tick, tokenSeen, quota, threads, book>>

\* run_command(command, timeout) up to its first await that waits: the
\* spawn fails and the except clause answers, or the child runs
Invoke ==
  /\ shell.pc \in {"idle", "replied"}
  /\ \E timeout \in Timeouts, exists7 \in BOOLEAN, spawn \in SpawnOutcomes,
        duration \in Durations, code \in ExitCodes, out \in Outputs :
       shell' =
         IF spawn # "ok"
         THEN [pc |-> "replied", timeout |-> timeout, spawned |-> FALSE,
               child |-> "none", reaped |-> FALSE, timer |-> FALSE,
               clock |-> 0, duration |-> 0, code |-> 0, out |-> "",
               path |-> powershell_of(exists7).path,
               version |-> powershell_of(exists7).version,
               raised |-> "none", reply |-> error_reply(spawn)]
         ELSE [pc |-> "waiting", timeout |-> timeout, spawned |-> TRUE,
               child |-> "running", reaped |-> FALSE, timer |-> FALSE,
               clock |-> 0, duration |-> duration, code |-> code, out |-> out,
               path |-> powershell_of(exists7).path,
               version |-> powershell_of(exists7).version,
               raised |-> "none", reply |-> NoReply]
  /\ ShellFrame

\* a second passes while the command runs and wait_for waits
Tick ==
  /\ shell.pc = "waiting" /\ shell.child = "running"
  /\ shell.clock < shell.duration /\ shell.clock < shell.timeout
  /\ shell' = [shell EXCEPT !.clock = @ + 1]
  /\ ShellFrame

\* the command comes to its end
ChildExit ==
  /\ shell.pc \in {"waiting", "timed_out"} /\ shell.child = "running"
  /\ shell.clock >= shell.duration
  /\ shell' = [shell EXCEPT !.child = "exited"]
  /\ ShellFrame

\* lines 56-59 and 72-81: communicate() returns inside wait_for; with a
\* timeout of 0 wait_for gives up before communicate() can finish
CommunicateReturns ==
  /\ shell.pc = "waiting" /\ shell.child = "exited" /\ shell.timeout > 0
  /\ shell' = [shell EXCEPT !.pc = "replied", !.reaped = TRUE,
                 !.reply = finished_reply(shell.out, "", shell.code,
                                          shell.version)]
  /\ ShellFrame

\* line 60: wait_for raises TimeoutError
TimerFires ==
  /\ shell.pc = "waiting" /\ shell.clock >= shell.timeout
  /\ shell' = [shell EXCEPT !.pc = "timed_out", !.timer = TRUE]
  /\ ShellFrame

\* line 61: process.kill(); a child that has exited meanwhile is left alone,
\* or, once its transport is closed, kill() raises ProcessLookupError and
\* the except clause of lines 82-90 answers
Kill ==
  /\ shell.pc = "timed_out"
  /\ \/ /\ shell.child = "running"
        /\ shell' = [shell EXCEPT !.pc = "killed", !.child = "killed"]
     \/ /\ shell.child = "exited"
        /\ shell' = [shell EXCEPT !.pc = "killed"]
     \/ /\ shell.child = "exited"
        /\ shell' = [shell EXCEPT !.pc = "replied", !.reaped = TRUE,
                       !.reply = error_reply("ProcessLookupError")]
  /\ ShellFrame

\* lines 62-69: process.wait() returns, the timeout reply is built
WaitReturns ==
  /\ shell.pc = "killed"
  /\ shell' = [shell EXCEPT !.pc = "replied", !.reaped = TRUE,
                 !.reply = timeout_reply(shell.version)]
  /\ ShellFrame

InitShell ==
  /\ HAS_API = FALSE
  /\ tokenCache = <<>>
  /\ holidayCache = <<>>
  /\ tokenReply = NetErr
  /\ holidayReply = NetErr
  /\ last = NoCall
  /\ tick = FALSE
  /\ tokenSeen = [t \in Triples |-> Absent]
  /\ quota = NoQuota
  /\ threads = NoThreads
  /\ shell = ShellIdle
  /\ book = NoBook

NextShell ==
  \/ Invoke
  \/ Tick
  \/ ChildExit
  \/ CommunicateReturns
  \/ TimerFires
  \/ Kill
  \/ WaitReturns

SpecShell == InitShell /\ [][NextShell]_vars

\* ---- excel_mcp_server.py and testcase_excel_manager.py ----
\* A worksheet is the sequence of its rows, the header first; a row gives
\* each of the eight columns a cell value.  A test case is a dict over the
\* column names, Absent where it has no such key.

COLUMNS ==
  <<"name", "precondition", "module", "steps", "expected", "remark",
    "level", "mode">>

Cols == 1..Len(COLUMNS)

HeaderRow == [c \in Cols |-> PyStr(COLUMNS[c])]
BlankRow == [c \in Cols |-> PyNone]

\* a complete test case, one with its name only, one whose module is a list
Testcases ==
  {[c \in Cols |-> PyStr("a")],
   [c \in Cols |-> IF c = 1 THEN PyStr("b") ELSE Absent],
   [c \in Cols |-> IF c = 1 THEN PyStr("c")
                   ELSE IF c = 3 THEN PyList(<<>>) ELSE Absent]}

\* openpyxl takes numbers, strings, booleans and None for a cell value
Writable(v) == v.k \in {"null", "str", "num", "bool"}

FileMissing == [st |-> "missing", rows |-> <<>>]
FileCorrupt == [st |-> "corrupt", rows |-> <<>>]
FileOf(rows) == [st |-> "ok", rows |-> rows]

\* TestCaseExcelManager.__init__
Manager == [wb |-> FALSE, ws |-> FALSE, data |-> FALSE, rows |-> <<>>]

\* TestCaseExcelManager.open: [ret, m]; pandas is what pd.read_excel ends with
open(m, disk, pandas) ==
  IF disk.st # "ok" THEN [ret |-> FALSE, m |-> m]
  ELSE IF pandas # "ok"
  THEN [ret |-> FALSE,
        m |-> [m EXCEPT !.wb = TRUE, !.ws = TRUE, !.rows = disk.rows]]
  ELSE [ret |-> TRUE,
        m |-> [m EXCEPT !.wb = TRUE, !.ws = TRUE, !.data = TRUE,
                        !.rows = disk.rows]]

\* the worksheet with a cell at row: rows up to it exist
Extended(rows, row) ==
  [r \in 1..(IF row > Len(rows) THEN row ELSE Len(rows)) |->
     IF r <= Len(rows) THEN rows[r] ELSE BlankRow]

\* TestCaseExcelManager.update_testcase: [raised, m]; the cells of the
\* columns before the one that raises are already changed
update_testcase(m, row, testcase) ==
  IF ~m.ws THEN [raised |-> "Exception", m |-> m]
  ELSE IF \E c \in Cols : testcase[c] # Absent /\ row < 1
  THEN [raised |-> "ValueError", m |-> m]
  ELSE
    LET bad == {c \in Cols : testcase[c] # Absent /\ ~Writable(testcase[c])}
        stop == IF bad = {} THEN Len(COLUMNS) + 1
                ELSE CHOOSE c \in bad : \A b \in bad : c <= b
        touched == {c \in Cols : testcase[c] # Absent /\ c < stop}
        sheet == IF touched = {} /\ bad = {} THEN m.rows
                 ELSE Extended(m.rows, row)
    IN  [raised |-> IF bad = {} THEN "none" ELSE "ValueError",
         m |-> [m EXCEPT !.rows =
                  [r \in 1..Len(sheet) |->
                     IF r = row
                     THEN [c \in Cols |-> IF c \in touched THEN testcase[c]
                                          ELSE sheet[r][c]]
                     ELSE sheet[r]]]]

\* TestCaseExcelManager.add_testcase
add_testcase(m, testcase) ==
  IF ~m.ws THEN [raised |-> "Exception", m |-> m]
  ELSE update_testcase(m, Len(m.rows) + 1,
                       [c \in Cols |-> IF testcase[c] = Absent THEN PyStr("")
                                       ELSE testcase[c]])

\* TestCaseExcelManager.delete_testcase
delete_testcase(m, row) ==
  IF ~m.ws THEN [raised |-> "Exception", m |-> m]
  ELSE IF row < 1 \/ row > Len(m.rows) THEN [raised |-> "none", m |-> m]
  ELSE [raised |-> "none",
        m |-> [m EXCEPT !.rows =
                 [r \in 1..(Len(m.rows) - 1) |->
                    IF r < row THEN m.rows[r] ELSE m.rows[r + 1]]]]

\* TestCaseExcelManager.save: [raised, disk]; io is what wb.save ends with
save(m, disk, io) ==
  IF ~m.wb THEN [raised |-> "Exception", disk |-> disk]
  ELSE IF io # "ok" THEN [raised |-> io, disk |-> disk]
  ELSE [raised |-> "none", disk |-> FileOf(m.rows)]

\* the tool after save(): manager.close() and the success message
tool_saved(op, o, sv) ==
  [disk |-> sv.disk, op |-> op, opened |-> o.ret, modified |-> TRUE,
   save_called |-> TRUE,
   message |-> IF sv.raised = "none" THEN "ok" ELSE "error"]

\* the tool after the modification: save() unless it raised
tool_modified(op, disk, o, u, io) ==
  IF u.raised # "none"
  THEN [disk |-> disk, op |-> op, opened |-> o.ret, modified |-> FALSE,
        save_called |-> FALSE, message |-> "error"]
  ELSE tool_saved(op, o, save(u.m, disk, io))

\* update_excel_file, lines 110-130
update_after_open(disk, row, testcase, o, io) ==
  tool_modified("update_excel_file", disk, o,
                update_testcase(o.m, row, testcase), io)

update_excel_file(disk, row, testcase, pandas, io) ==
  update_after_open(disk, row, testcase, open(Manager, disk, pandas), io)

\* add_excel_testcase, lines 143-161
add_after_open(disk, testcase, o, io) ==
  tool_modified("add_excel_testcase", disk, o, add_testcase(o.m, testcase), io)

add_excel_testcase(disk, testcase, pandas, io) ==
  add_after_open(disk, testcase, open(Manager, disk, pandas), io)

\* delete_excel_testcase, lines 174-192
delete_after_open(disk, row, o, io) ==
  tool_modified("delete_excel_testcase", disk, o, delete_testcase(o.m, row), io)

delete_excel_testcase(disk, row, pandas, io) ==
  delete_after_open(disk, row, open(Manager, disk, pandas), io)

RowNumbers == 0..MaxRows

PandasOutcomes == {"ok", "ImportError"}
SaveOutcomes == {"ok", "PermissionError"}

BookFrame ==
  UNCHANGED <<HAS_API, tokenCache, holidayCache, tokenReply, holidayReply,
              last, tick, tokenSeen, quota, threads, shell>>

BookStart(disk) ==
  [disk |-> disk, op |-> "none", opened |-> FALSE, modified |-> FALSE,
   save_called |-> FALSE, message |-> "none"]

CallUpdateExcel ==
  /\ \E row \in RowNumbers, testcase \in Testcases,
        pandas \in PandasOutcomes, io \in SaveOutcomes :
       book' = update_excel_file(book.disk, row, testcase, pandas, io)
  /\ BookFrame

CallAddExcel ==
  /\ book.disk.st = "ok" => Len(book.disk.rows) < MaxRows
  /\ \E testcase \in Testcases,
        pandas \in PandasOutcomes, io \in SaveOutcomes :
       book' = add_excel_testcase(book.disk, testcase, pandas, io)
  /\ BookFrame

CallDeleteExcel ==
  /\ \E row \in RowNumbers,
        pandas \in PandasOutcomes, io \in SaveOutcomes :
       book' = delete_excel_testcase(book.disk, row, pandas, io)
  /\ BookFrame

InitBook ==
  /\ HAS_API = FALSE
  /\ tokenCache = <<>>
  /\ holidayCache = <<>>
  /\ tokenReply = NetErr
  /\ holidayReply = NetErr
  /\ last = NoCall
  /\ tick = FALSE
  /\ tokenSeen = [t \in Triples |-> Absent]
  /\ quota = NoQuota
  /\ threads = NoThreads
  /\ shell = NoShell
  /\ book \in {BookStart(FileMissing), BookStart(FileCorrupt),
               BookStart(FileOf(<<HeaderRow>>))}

NextBook == CallUpdateExcel \/ CallAddExcel \/ CallDeleteExcel

SpecBook == InitBook /\ [][NextBook]_vars

----------------------------------------------------------------------------
(* Token acquisition: claims C7 - C10 *)

IsTokenCall == last.op = "get_access_token"

\* a step that is a get_access_token call following a get_access_token call
\* with the identical triple
SameTripleAgain ==
  /\ tick' # tick
  /\ last.op = "get_access_token"
  /\ last'.op = "get_access_token"
  /\ last'.key = last.key

\* C7 as stated: once a call returned a token for a triple, every later call
\* with that triple returns that token with no POST, whatever calls with
\* other triples happened in between.
C7_MemoizedForLifetime ==
  [][(/\ tick' # tick
      /\ last'.op = "get_access_token"
      /\ tokenSeen[last'.key] # Absent)
     => (/\ last'.posts = 0
         /\ last'.raised = "none"
         /\ last'.ret = tokenSeen[last'.key])]_vars

\* C7 amended: once a call returned a token for a triple, every later call
\* with that triple returns that token with no POST as long as no call with
\* a different triple was made in between (the cache holds one entry).
C7_MemoizedUntilOtherTriple ==
  [][(SameTripleAgain /\ last.raised = "none" /\ last.ret \in Tokens)
     => (/\ last'.posts = 0
         /\ last'.raised = "none"
         /\ last'.ret = last.ret)]_vars

\* C7 witness: a call was served a token from the cache
C7_Witness == IsTokenCall /\ last.hit /\ last.ret \in Tokens

\* C8: two consecutive get_access_token calls with identical parameters
\* issue at most one POST in total, whatever the outcome of the first.
C8_AtMostOnePost ==
  [][SameTripleAgain => last.posts + last'.posts <= 1]_vars

\* C9: get_access_token never raises; every failing transport outcome or
\* response body makes it return None.
C9_NeverRaises ==
  IsTokenCall => (last.raised = "none" /\ (last.ret \in Tokens \/ Falsy(last.ret)))

\* C10: with a missing or empty app_id get_access_token returns None and
\* issues no HTTP request, in every state of the cache.
C10_EmptyAppIdNoRequest ==
  (IsTokenCall /\ Falsy(last.key.app_id))
    => (last.ret = PyNone /\ last.raised = "none" /\ last.posts = 0)

\* C10 witness: such a call was made while the cache held another triple
C10_Witness ==
  /\ IsTokenCall
  /\ last.key.app_id = PyStr("")
  /\ ~last.hit
  /\ \E t \in Triples : Truthy(t.app_id) /\ tokenSeen[t] # Absent

----------------------------------------------------------------------------
(* Day classification and year enumeration: claims C1 - C6 *)

IsHolidayDone == last.op = "is_holiday"
GetHolidaysDone == last.op = "get_holidays"

Kinds == {WorkingDay, AdjustedWorkday, Weekend, SpecialRestDay, StatutoryHoliday}

\* Saturday or Sunday by Zeller's congruence (0 = Saturday, 1 = Sunday)
SatOrSun(d) ==
  LET y == IF d.month < 3 THEN d.year - 1 ELSE d.year
      m == IF d.month < 3 THEN d.month + 12 ELSE d.month
      K == y % 100
      J == y \div 100
  IN  (d.day + ((13 * (m + 1)) \div 5) + K + (K \div 4) + (J \div 4) + 5 * J) % 7
        \in {0, 1}

TableFlag(d) == holidays[d.year][strftime(d)]

\* C1: for a date of the built-in table, whenever remote access is disabled
\* or the remote path fails, is_holiday answers from the table: statutory
\* holiday for flag true, adjusted workday for flag false, whatever the weekday.
C1_TableAnswersWhenRemoteFails ==
  (IsHolidayDone /\ InTable(last.date) /\ (~HAS_API \/ ~last.answered))
    => IF TableFlag(last.date)
       THEN last.flag /\ last.kind = StatutoryHoliday
       ELSE ~last.flag /\ last.kind = AdjustedWorkday

\* C2: whenever the remote working-day query succeeds, the result is the one
\* of four fixed by (remote answer, weekday), and the table is not consulted.
C2_RemoteMapping ==
  (IsHolidayDone /\ last.answered)
    => /\ last.path = "remote"
       /\ last.raised = "none"
       /\ (last.work /\ SatOrSun(last.date))
            => (~last.flag /\ last.kind = AdjustedWorkday)
       /\ (last.work /\ ~SatOrSun(last.date))
            => (~last.flag /\ last.kind = WorkingDay)
       /\ (~last.work /\ SatOrSun(last.date))
            => (last.flag /\ last.kind = Weekend)
       /\ (~last.work /\ ~SatOrSun(last.date))
            => (last.flag /\ last.kind = SpecialRestDay)

\* C2 witness: the remote source answered for a date of the table and its
\* answer, not the table's, was returned
C2_Witness ==
  /\ IsHolidayDone /\ last.answered /\ InTable(last.date)
  /\ last.kind \in {SpecialRestDay, AdjustedWorkday}
  /\ TableFlag(last.date)

C4_DefaultRule ==
  (IsHolidayDone /\ ~HAS_API /\ last.date.year = TableYear /\ ~InTable(last.date))
    => IF SatOrSun(last.date)
       THEN last.flag /\ last.kind = Weekend
       ELSE ~last.flag /\ last.kind = WorkingDay

\* C4 witness: a Saturday outside the table classified with remote access disabled
C4_Witness ==
  /\ IsHolidayDone /\ ~HAS_API
  /\ last.date = Date(TableYear, 3, 7) /\ last.kind = Weekend

\* the days of year y in calendar order
DayIndex(d) == DaysBeforeMonth(d.year, d.month) + d.day
YearSeq(y) ==
  [i \in 1..Cardinality(DaysOfYear(y)) |->
     CHOOSE d \in DaysOfYear(y) : DayIndex(d) = i]

Strings(ds) == [i \in 1..Len(ds) |-> strftime(ds[i])]

\* a key of table[Y] with flag true, or a Saturday/Sunday the table does not
\* override to false
ExpectedLocalHoliday(d) ==
  \/ InTable(d) /\ TableFlag(d)
  \/ SatOrSun(d) /\ ~(InTable(d) /\ ~TableFlag(d))

\* C5: with remote access disabled get_holidays(Y) returns, ascending and
\* without duplicates, exactly the true keys of table[Y] and the Saturdays
\* and Sundays of Y that the table does not override to false.
C5_LocalYear ==
  (GetHolidaysDone /\ ~HAS_API)
    => /\ last.raised = "none"
       /\ last.ret = Strings(SelectSeq(YearSeq(last.year), ExpectedLocalHoliday))

\* C5 witness: the table's year was enumerated with remote access disabled
C5_Witness ==
  /\ GetHolidaysDone /\ ~HAS_API /\ last.year = TableYear
  /\ \E i \in 1..Len(last.ret) : last.ret[i] = "2026-10-07"

\* is_holiday(d) as it answers in the current state
HolidayNow(d) ==
  is_holiday(World(tokenCache, holidayCache), d,
             Env(tokenReply, holidayReply), HAS_API).flag

\* C6: whatever the fetch of the year does, get_holidays returns, in
\* strictly ascending order, exactly the days of the year for which
\* is_holiday is true, each once, from Jan 1 to Dec 31.
C6_CompleteYear ==
  GetHolidaysDone
    => /\ last.raised = "none"
       /\ last.ret = Strings(SelectSeq(YearSeq(last.year), HolidayNow))

\* C6 witness: the fetch raised and the year was enumerated all the same
C6_Witness ==
  GetHolidaysDone /\ last.fetched = "raised" /\ Len(last.ret) >= 365

----------------------------------------------------------------------------
(* Remote fetch protocol and caches: claims C11, C12 *)

IsFetchCall == last.op = "get_holiday_data"

IsPost(ev) == ev.req = "POST"
IsGet(ev) == ev.req = "GET"

\* C11: one get_holiday_data invocation sends at most one token POST and at
\* most one holiday GET, the POST first; a GET is sent only with a non-empty
\* token; without a GET a call that missed the cache fails; nothing is retried.
C11_FetchProtocol ==
  IsFetchCall
    => /\ Len(last.log) <= 2
       /\ Len(last.log) = 2 => (IsPost(last.log[1]) /\ IsGet(last.log[2]))
       /\ \A i \in 1..Len(last.log) :
            IsGet(last.log[i]) => (last.log[i].auth \in Tokens)
       /\ last.posts = Cardinality({i \in 1..Len(last.log) : IsPost(last.log[i])})
       /\ last.gets = Cardinality({i \in 1..Len(last.log) : IsGet(last.log[i])})
       /\ last.hit => last.log = <<>>
       /\ (~last.hit /\ last.gets = 0)
            => (last.ret = PyNone \/ last.raised # "none")

\* C11 witness: a fetch that sent the POST and then the GET, and one before
\* it whose token failed
C11_Witness ==
  /\ IsFetchCall /\ Len(last.log) = 2 /\ last.ret # PyNone
  /\ \E i \in 1..Len(holidayCache) : holidayCache[i].val = PyNone

CachedKeys(c) == {c[i].key : i \in 1..Len(c)}

\* the cached key that was asked for the longest time ago
LeastRecentlyAsked(c, recent) ==
  recent[CHOOSE i \in 1..Len(recent) :
           /\ recent[i] \in CachedKeys(c)
           /\ \A j \in 1..(i - 1) : recent[j] \notin CachedKeys(c)]

FetchStep == tick' # tick /\ last'.op = "get_holiday_data"

\* C12: the holiday cache never holds more than 10 distinct keys; a call
\* whose key is cached returns the stored value with no request and evicts
\* nothing; a stored miss on a full cache evicts exactly the least recently
\* used key, and on a cache that is not full evicts nothing.
C12_CacheBound ==
  [][FetchStep =>
       /\ Len(holidayCache') <= HolidayCacheSize
       /\ Cardinality(CachedKeys(holidayCache')) = Len(holidayCache')
       /\ (last'.key \in CachedKeys(holidayCache))
            => /\ last'.posts = 0 /\ last'.gets = 0 /\ last'.raised = "none"
               /\ \E i \in 1..Len(holidayCache) :
                    /\ holidayCache[i].key = last'.key
                    /\ holidayCache[i].val = last'.ret
               /\ CachedKeys(holidayCache') = CachedKeys(holidayCache)
       /\ (last'.key \notin CachedKeys(holidayCache) /\ last'.raised # "none")
            => holidayCache' = holidayCache
       /\ (last'.key \notin CachedKeys(holidayCache) /\ last'.raised = "none")
            => CachedKeys(holidayCache') =
                 (IF Len(holidayCache) = HolidayCacheSize
                  THEN CachedKeys(holidayCache)
                         \ {LeastRecentlyAsked(holidayCache, quota.recent)}
                  ELSE CachedKeys(holidayCache)) \cup {last'.key}
  ]_vars

\* C12 witness: the cache is full, more keys were asked for than it holds,
\* and the first key survived because it was asked for again
C12_Witness ==
  /\ IsFetchCall /\ Len(holidayCache) = HolidayCacheSize
  /\ quota.fresh > HolidayCacheSize
  /\ CacheKey(1) \in CachedKeys(holidayCache)
  /\ CacheKey(2) \notin CachedKeys(holidayCache)

----------------------------------------------------------------------------
(* Batch validation: claims C13 - C17 *)

IsValidateCall == last.op = "validate_date_status"

\* every element of the list is a record (a JSON object)
AllRecords == \A j \in DOMAIN last.date_records : last.date_records[j].k = "dict"

ValidDetail == last.valid_records_detail
InvalidDetail == last.invalid_records_detail

\* what record j holds under a key, None when the key is absent
Field(j, key) ==
  IF last.date_records[j].f[key] = Absent THEN PyNone
  ELSE last.date_records[j].f[key]

\* the k-th smallest index of the set S
Nth(S, k) == CHOOSE j \in S : Cardinality({x \in S : x <= j}) = k

\* the entries of detail are, in order, entries for the records of S
EntriesFor(detail, S) ==
  /\ Len(detail) = Cardinality(S)
  /\ \A k \in 1..Len(detail) :
       /\ detail[k].date = Field(Nth(S, k), "date")
       /\ detail[k].status = Field(Nth(S, k), "status")

HolidayThen(d) ==
  is_holiday(World(tokenCache, holidayCache), d, last.env, HAS_API)

\* record j has a date text that parses and a boolean status
Checkable(j) ==
  /\ Field(j, "date").k = "str" /\ Field(j, "status").k = "bool"
  /\ strptime(Field(j, "date")).ex = "none"

DateOf(j) == strptime(Field(j, "date")).val

ClassifiedEntry(j, c, reason) ==
  Entry(Field(j, "date"), Field(j, "status"), PyBool(~c.flag), PyBool(c.flag),
        PyStr(c.kind), reason)

Listed(detail, entry) == \E k \in DOMAIN detail : detail[k] = entry

\* the records of S went to the valid list, the others to the invalid list
Placement(S) ==
  /\ EntriesFor(ValidDetail, S)
  /\ EntriesFor(InvalidDetail, DOMAIN last.date_records \ S)

\* the place among the entries for S of the entry for record j
Place(S, j) == Cardinality({x \in S : x <= j})

\* C14: a record with both fields and a parseable date is in valid if and
\* only if its status equals NOT is_holiday(date); its entry, in either
\* list, carries expected_status = NOT is_holiday, actual_status =
\* is_holiday and the kind of the classification.
C14_ValidIffExpected ==
  (IsValidateCall /\ AllRecords)
    => \E S \in SUBSET DOMAIN last.date_records :
         /\ Placement(S)
         /\ \A j \in DOMAIN last.date_records :
              Checkable(j) =>
                IF Field(j, "status").b = ~HolidayThen(DateOf(j)).flag
                THEN /\ j \in S
                     /\ ValidDetail[Place(S, j)]
                          = ClassifiedEntry(j, HolidayThen(DateOf(j)), "valid")
                ELSE /\ j \notin S
                     /\ InvalidDetail[Place(DOMAIN last.date_records \ S, j)]
                          = ClassifiedEntry(j, HolidayThen(DateOf(j)), "mismatch")

\* C14 witness: the remote source answered, one record matched and another
\* did not
C14_Witness ==
  /\ IsValidateCall /\ AllRecords
  /\ \E k \in DOMAIN ValidDetail : ValidDetail[k].holiday_type = PyStr(AdjustedWorkday)
  /\ \E k \in DOMAIN InvalidDetail : InvalidDetail[k].reason = "mismatch"
  /\ last.gets = 1

\* C15: a record for a date of the table with flag true is valid exactly
\* when its status is false, one for a date with flag false exactly when its
\* status is true: {2026-02-02, false} is valid, {2026-02-28, false} invalid.
C15_TableDates ==
  (IsValidateCall /\ AllRecords)
    => \E S \in SUBSET DOMAIN last.date_records :
         /\ Placement(S)
         /\ \A j \in DOMAIN last.date_records :
              (/\ Checkable(j) /\ InTable(DateOf(j))
               /\ (~HAS_API \/ ~HolidayThen(DateOf(j)).answered))
                => (j \in S <=> (Field(j, "status").b = ~TableFlag(DateOf(j))))

\* a record whose date or status key is absent or null
MissingField(j) == Field(j, "date") = PyNone \/ Field(j, "status") = PyNone

\* C16: a record whose date or status is missing is reported invalid with
\* the missing-field reason, and is neither parsed nor classified, so that a
\* list of such records causes no request; a status of false with a date
\* present is not taken for missing.
C16_MissingField ==
  (IsValidateCall /\ AllRecords)
    => /\ \A j \in DOMAIN last.date_records :
            MissingField(j) =>
              /\ Listed(InvalidDetail,
                        ShortEntry(Field(j, "date"), Field(j, "status"), "missing"))
              /\ ~last.calls[j]
       /\ (\A j \in DOMAIN last.date_records : MissingField(j))
            => (last.posts = 0 /\ last.gets = 0 /\ ValidDetail = <<>>)
       /\ \A j \in DOMAIN last.date_records :
            (Truthy(Field(j, "date")) /\ Field(j, "status") = PyBool(FALSE))
              => ~Listed(InvalidDetail,
                         ShortEntry(Field(j, "date"), Field(j, "status"), "missing"))

\* C16 witness: remote access enabled, a record without its date, and a
\* record with status false that was classified and found valid
C16_Witness ==
  /\ IsValidateCall /\ AllRecords /\ HAS_API
  /\ \E j \in DOMAIN last.date_records :
       Field(j, "date") = PyNone /\ Field(j, "status") # PyNone
  /\ \E k \in DOMAIN ValidDetail : ValidDetail[k].status = PyBool(FALSE)

\* record j has a date text that is no date in the format
Unparseable(j) ==
  Field(j, "date").k = "str" /\ Truthy(Field(j, "date"))
    /\ Field(j, "status") # PyNone /\ strptime(Field(j, "date")).ex = "ValueError"

\* C17: a record whose date does not parse as YYYY-MM-DD is reported invalid
\* with the parse-error reason, nothing is raised, the record is not
\* classified and the records after it are still processed.
C17_ParseError ==
  (IsValidateCall /\ AllRecords)
    => \A j \in DOMAIN last.date_records :
         Unparseable(j) =>
           /\ ~last.failed /\ last.raised = "none"
           /\ Listed(InvalidDetail,
                     ShortEntry(Field(j, "date"), Field(j, "status"), "format"))
           /\ ~last.calls[j]
           /\ Len(last.calls) = Len(last.date_records)
           /\ last.total_records = Len(last.date_records)

\* C17 witness: "2026-13-40" first, and a record after it found valid
C17_Witness ==
  /\ IsValidateCall /\ AllRecords /\ Len(last.date_records) >= 2
  /\ Field(1, "date") = PyStr("2026-13-40")
  /\ \E k \in DOMAIN InvalidDetail : InvalidDetail[k].reason = "format"
  /\ Len(ValidDetail) >= 1

----------------------------------------------------------------------------
(* Failure classes and dependence on the caches: claims C18, C19 *)

IsHolidayStep == tick' # tick /\ last'.op = "is_holiday"

\* responses that are no JSON or lack a key the code looks up: at the top
\* level, under data, inside a holiday record
HolidayFormatFailures ==
  {Body(Garbage), Body(EmptyDict), Body(PyDict([data |-> EmptyDict])),
   HolidayBody(BrokenRecord)}

TokenFormatFailures ==
  {Body(Garbage), Body(EmptyDict), Body(PyDict([data |-> EmptyDict]))}

\* is_holiday(d) from the caches of the current state under the replies tr, hr
Classify(d, tr, hr) ==
  is_holiday(World(tokenCache, holidayCache), d, Env(tr, hr), HAS_API)

SameAnswer(a, b) == a.flag = b.flag /\ a.kind = b.kind

\* C18: a response that is malformed JSON or lacks an expected key gives the
\* classification that a network error on the same call would give.
C18_FormatAsTransport ==
  [][IsHolidayStep =>
       /\ (holidayReply \in HolidayFormatFailures)
            => SameAnswer(last', Classify(last'.date, tokenReply, NetErr))
       /\ (tokenReply \in TokenFormatFailures)
            => SameAnswer(last', Classify(last'.date, NetErr, holidayReply))
  ]_vars

\* C19 as stated: the classification is what a run with empty caches gives
\* against the same remote state, whatever calls came before.
C19_FunctionOfRemoteState ==
  [][IsHolidayStep =>
       SameAnswer(last',
                  is_holiday(World(<<>>, <<>>), last'.date,
                             Env(tokenReply, holidayReply), HAS_API))
  ]_vars

\* C19: once the holiday cache holds the year of the date, the cached value
\* decides the classification: no request is made and the result is the one
\* an unreachable remote source would give from the same caches; the current
\* remote state only matters for a year that is not cached.
C19_CachedYearDecides ==
  [][(IsHolidayStep /\ HAS_API
        /\ ConfigKey(last'.date.year) \in CachedKeys(holidayCache))
       => /\ last'.posts = 0 /\ last'.gets = 0
          /\ SameAnswer(last', Classify(last'.date, NetErr, NetErr))
          /\ holidayCache' = holidayCache
  ]_vars

\* C19 witness: a date answered from the cached list while the holiday
\* endpoint is unreachable
C19_Witness ==
  /\ IsHolidayDone /\ last.answered /\ last.gets = 0
  /\ last.kind = SpecialRestDay
  /\ holidayReply = NetErr

----------------------------------------------------------------------------
(* Concurrent callers on a cold cache: claim C20 *)

Callers == DOMAIN threads

AllDone == Callers # {} /\ \A i \in Callers : threads[i].pc = "done"

HolidayCallers == {i \in Callers : threads[i].op = "get_holiday_data"}

RECURSIVE PostsUpTo(_)
PostsUpTo(n) == IF n = 0 THEN 0 ELSE threads[n].posts + PostsUpTo(n - 1)

RECURSIVE GetsUpTo(_)
GetsUpTo(n) == IF n = 0 THEN 0 ELSE threads[n].gets + GetsUpTo(n - 1)

EntriesOf(c, key) == Cardinality({i \in 1..Len(c) : c[i].key = key})

\* C20: when the concurrent callers of an uncached key have all finished,
\* each of them holds a result, each cache holds exactly one entry for the key
\* that was requested, and the key was fetched at most once per caller.
C20_ColdCacheRace ==
  AllDone =>
    /\ \A i \in Callers : threads[i].raised = "none"
    /\ EntriesOf(tokenCache, ConfigTriple) = 1
    /\ HolidayCallers # {} => EntriesOf(holidayCache, RaceKey) = 1
    /\ PostsUpTo(Len(threads)) <= Cardinality(Callers)
    /\ GetsUpTo(Len(threads)) <= Cardinality(HolidayCallers)

----------------------------------------------------------------------------
(* Requests of a year enumeration: claim C21 *)

GetHolidaysStep == tick' # tick /\ last'.op = "get_holidays"

\* C21: starting from empty caches, one call of get_holidays(year) sends at
\* most one token POST and at most one holiday GET: the classifications of
\* the days find the key that the first fetch stored.
C21_OneFetchPerYear ==
  [][(GetHolidaysStep /\ tokenCache = <<>> /\ holidayCache = <<>>)
       => (last'.posts <= 1 /\ last'.gets <= 1)
  ]_vars

----------------------------------------------------------------------------
(* The remote exception list: claim C22 *)

IsWorkDayCall == last.op = "get_work_day"

YearFetched(y) == ConfigKey(y) \in CachedKeys(holidayCache)

\* what get_holiday_data holds for the year y
FetchedFor(y) ==
  holidayCache[CHOOSE i \in 1..Len(holidayCache) :
                 holidayCache[i].key = ConfigKey(y)].val

\* a list of holiday records: each one has a date and an is_work_day flag
HolidayRecords(v) ==
  /\ v.k = "list"
  /\ \A i \in 1..Len(v.xs) :
       /\ v.xs[i].k = "dict"
       /\ v.xs[i].f["date"].k \in {"num", "str"}
       /\ v.xs[i].f["is_work_day"] # Absent

\* the records of the list v for the date d
RecordsFor(v, d) ==
  {i \in 1..Len(v.xs) : v.xs[i].f["date"] = PyNum(timestamp(d))}

LastOf(S) == CHOOSE i \in S : \A j \in S : j <= i

\* C22: once the holiday list of the year is fetched, get_work_day gives for
\* a listed date the is_work_day flag of its record, the last record of the
\* date when there are several, and for a date that is not listed true
\* exactly from Monday to Friday.
C22_ExceptionList ==
  (IsWorkDayCall /\ YearFetched(last.date.year)
     /\ HolidayRecords(FetchedFor(last.date.year)))
    => /\ last.raised = "none"
       /\ IF RecordsFor(FetchedFor(last.date.year), last.date) # {}
          THEN last.ret =
                 FetchedFor(last.date.year).xs[
                   LastOf(RecordsFor(FetchedFor(last.date.year), last.date))
                 ].f["is_work_day"]
          ELSE last.ret = PyBool(~SatOrSun(last.date))

\* C22 witness: a Saturday listed twice, first as a rest day and then as a
\* working day, comes out as a working day
C22_Witness ==
  /\ IsWorkDayCall /\ YearFetched(last.date.year)
  /\ FetchedFor(last.date.year) = ListedTwice
  /\ last.date = Date(2026, 3, 7)
  /\ last.ret = PyBool(TRUE)

----------------------------------------------------------------------------
(* Memoized failures: claim C23 *)

CallStep == tick' # tick

Posts(l) == l.posts
Gets(l) == IF l.op = "get_access_token" THEN 0 ELSE l.gets

\* the call that just finished returned None
ReturnedNone(l) ==
  l.op \in {"get_access_token", "get_holiday_data"}
    /\ l.raised = "none" /\ l.ret = PyNone

HoldsNone(c, key) == \E i \in 1..Len(c) : c[i].key = key /\ c[i].val = PyNone

\* C23: after get_access_token or get_holiday_data returned None for a key,
\* the next call with the key returns None with no request; and while the
\* token cache holds None for the configured triple no call of the process
\* sends a POST or a GET and the entry stays, whatever the authority answers
\* by then.
C23_FailureMemoized ==
  [][CallStep =>
       /\ (ReturnedNone(last) /\ last'.op = last.op /\ last'.key = last.key)
            => /\ last'.ret = PyNone /\ last'.raised = "none"
               /\ Posts(last') = 0 /\ Gets(last') = 0
       /\ (ReturnedNone(last) /\ last.op = "get_access_token")
            => (Posts(last') = 0 /\ Gets(last') = 0)
       /\ HoldsNone(tokenCache, ConfigTriple)
            => /\ Posts(last') = 0 /\ Gets(last') = 0
               /\ tokenCache' = tokenCache
               /\ last'.op \in {"get_access_token", "get_holiday_data"}
                    => last'.ret = PyNone
       /\ (last'.op = "get_holiday_data" /\ HoldsNone(holidayCache, last'.key))
            => /\ last'.ret = PyNone /\ Posts(last') = 0 /\ Gets(last') = 0
               /\ HoldsNone(holidayCache', last'.key)
  ]_vars

\* C23 witness: the authority has recovered, the token cache still holds the
\* failure, and a year enumeration has just run without any request
C23_Witness ==
  /\ last.op = "get_holidays" /\ last.posts = 0 /\ last.gets = 0
  /\ HoldsNone(tokenCache, ConfigTriple)
  /\ tokenReply = RecoveredReply
  /\ holidayReply = HolidayBody(ListedDays)

----------------------------------------------------------------------------
(* Flag and kind of a classification: claim C24 *)

HolidayKinds == {Weekend, StatutoryHoliday, SpecialRestDay}
WorkKinds == {WorkingDay, AdjustedWorkday}

\* C24: every result of is_holiday, on the remote path, from the table and
\* from the default rule, has the flag true exactly with the kinds Weekend,
\* StatutoryHoliday and SpecialRestDay and false exactly with WorkingDay and
\* AdjustedWorkday, and carries no other kind.
C24_FlagMatchesKind ==
  IsHolidayDone
    => /\ last.kind \in HolidayKinds \cup WorkKinds
       /\ last.flag = TRUE <=> last.kind \in HolidayKinds
       /\ last.flag = FALSE <=> last.kind \in WorkKinds

\* C24 witness: a Saturday that the remote list marks as a working day
C24_Witness ==
  /\ IsHolidayDone /\ last.answered /\ HAS_API
  /\ last.date = Date(2026, 3, 7)
  /\ last.kind = AdjustedWorkday /\ last.flag = FALSE

----------------------------------------------------------------------------
(* The command bridge: claim C25 *)

Replied == shell.pc = "replied"

ReplyDict(r) ==
  /\ DOMAIN r = {"stdout", "stderr", "returncode", "message",
                 "powershell_version"}
  /\ r.returncode \in Int

\* C25: run_command always answers with a result dict and raises nothing; a
\* command that runs longer than the timeout is timed out, one that ends
\* sooner is not; after a timeout the child is gone and waited for when the
\* reply is built, and the reply has returncode -1 and empty stdout; a
\* command that finished in time is answered with its exit code, and the
\* message reports success exactly when that code is 0.
C25_ShellTimeout ==
  Replied
    => /\ ReplyDict(shell.reply) /\ shell.raised = "none"
       /\ (shell.spawned /\ shell.duration > shell.timeout) => shell.timer
       /\ (shell.spawned /\ shell.duration < shell.timeout) => ~shell.timer
       /\ shell.timer
            => /\ shell.child \in {"killed", "exited"} /\ shell.reaped
               /\ shell.reply.returncode = -1
               /\ shell.reply.stdout = ""
       /\ (shell.spawned /\ ~shell.timer)
            => /\ shell.child = "exited" /\ shell.reaped
               /\ shell.reply.returncode = shell.code
               /\ shell.reply.message = SuccessText <=> shell.code = 0
               /\ shell.reply.message \in {SuccessText, FailureText}

\* C25 witness: a command that would have run on and exited with 1 was
\* killed at the timeout
C25_Witness ==
  /\ Replied /\ shell.timer /\ shell.child = "killed"
  /\ shell.duration > shell.timeout /\ shell.timeout > 0 /\ shell.code = 1
  /\ shell.reply = timeout_reply(shell.version)

----------------------------------------------------------------------------
(* The spreadsheet tools: claim C26 *)

MutationStep ==
  book'.op \in {"update_excel_file", "add_excel_testcase",
                "delete_excel_testcase"}

\* C26: when open() fails or the modification raises, the tool answers with
\* an error message, save() is not called and the file on disk is what it
\* was; save() is called only after open() and the modification succeeded.
C26_NoSaveOnError ==
  [][MutationStep =>
       /\ (~book'.opened \/ ~book'.modified)
            => /\ book'.message = "error"
               /\ ~book'.save_called
               /\ book'.disk = book.disk
       /\ book'.save_called => (book'.opened /\ book'.modified)
  ]_vars

====
